---- MODULE Spec2Model ----
(***************************************************************************)
(* simplebot_mastodon: the account synchronization and relay engine.       *)
(*                                                                         *)
(* The scheduler thread is util.listen_to_mastodon / util._check_mastodon  *)
(* with _check_notifications, _handle_dms and _check_home; the store is    *)
(* the Account / DmChat tables of orm.py (Account keyed by addr); the      *)
(* command handlers are those of __init__.py (m_login, m_logout, m_dm).    *)
(* The remote network and the chat transport are the environment.          *)
(***************************************************************************)
EXTENDS Integers, Sequences, FiniteSets, TLC

(* ------------------------------ bounds -------------------------------- *)

\* number of events the remote network produces in one run
MaxEv == 2

\* number of events of the runs that fetch page by page
MaxPageEv == 5

\* contact conversations made on the tables of db.py in one run
MaxPchats == 3

\* calls of run_migrations (starts of the bot) in one run
MaxRuns == 5

(* ----------------------------- constants ------------------------------ *)

\* migrations.py: the schema version of this release
DATABASE_VERSION == 1

\* a nullable cursor column (orm.py: last_home, last_notif); event ids are >= 1
Null == 0
\* page size of one fetch (limit=100)
Limit == 100
\* logins that succeed in a run
MaxLogins == 2
\* app registrations tried for one instance in a run
MaxAppCalls == 2
\* the shortest sleep between two cycles, in seconds
MinDelay == 10
\* values of the "delay" setting: below the minimum, the minimum, the default
Delays == {5, 10, 30}
\* whole seconds a Draining phase can take: none, a few, most of the delay,
\* more than the delay
Elapsed == {0, 3, 25, 40}

Addr == {"a1", "a2", "a3"}
Contacts == {"bob"}

\* the instances users log in to
Urls == {"u1", "u2"}
\* the instance each local address logs in to
UrlOf(a) == IF a = "a3" THEN "u2" ELSE "u1"
\* position of an address in the account table (row order of the query)
AddrIdx(a) == IF a = "a1" THEN 1 ELSE IF a = "a2" THEN 2 ELSE 3
AddrSeq == <<"a1", "a2", "a3">>
\* the two conversations bound at login; contact conversations get later ids
HomeChat(a) == 2 * AddrIdx(a) - 1
NotifChat(a) == 2 * AddrIdx(a)
FirstDmChat == 2 * Cardinality(Addr) + 1

\* C20 mutant: the mute flag also silences mentions
MutedWithMentions == {"reblog", "favourite", "follow", "mention"}

MUTED_NOTIFICATIONS == {"reblog", "favourite", "follow"}

VARIABLES
    accounts,      \* store: addr -> Account row (DOMAIN = the rows that exist)
    dmchats,       \* store: set of DmChat rows
    nextChat,      \* chat transport: id of the next conversation it creates
    remoteNotif,   \* remote: addr -> notifications of the linked identity, newest first
    remoteHome,    \* remote: addr -> home timeline of the linked identity, newest first
    nextId,        \* remote: id of the next event
    sent,          \* chat transport: messages delivered, in order
    reports,       \* chat transport: reports sent to private chats by the pass in progress
    pc,            \* scheduler: position in listen_to_mastodon / _check_mastodon
    instances,     \* scheduler: the dict of pending snapshot tuples, in key order
    keys,          \* scheduler: keys of the current round still to visit
    cur,           \* scheduler: the snapshot tuple being synchronized
    toots,         \* scheduler: the fetched batch, newest first
    dmq,           \* scheduler: direct messages still to handle, oldest first
    chats,         \* scheduler: _handle_dms' local dict acct -> chat_id
    outbox,        \* scheduler: rendered messages still to send
    hpc,           \* command handler: position (idle, or inside m_dm)
    hreq,          \* command handler: the request being served
    snapshot,      \* history: addresses listed by the current cycle
    visited,       \* history: addr -> times synchronized in the current cycle
    hist,          \* history: facts about the current pass and cycle
    db_accounts,   \* db.py: the accounts table of the command handlers, a set of rows
    db_clients,    \* db.py: the clients table, a set of rows
    config,        \* the bot's settings max_users and max_users_instance
    replies,       \* command handler: what the last command answered
    app_calls,     \* history: url -> number of create_app calls made
    lock,          \* orm.py: _lock, the thread that holds it or "free"
    session,       \* orm.py: thread -> its session_scope (position, working copy)
    committed,     \* orm.py: the rows of the database file, as any new session reads them
    cmdlog,        \* history: the last command served and what it answered and called
    paging,        \* history: page size of the run, cursors it began with, event ids fetched so far
    db_pchats,     \* db.py: the pchats table of the command handlers, a set of rows
    dmlog,         \* history: the user each contact conversation was made for, and the last dm step
    dbfile,        \* migrations.py: the database file (exists, stored version, schema)
    mig            \* migrations.py: run_migrations' position, loop index, open transaction and history

vars == <<accounts, dmchats, nextChat, remoteNotif, remoteHome, nextId, sent,
          reports, pc, instances, keys, cur, toots, dmq, chats, outbox, hpc,
          hreq, snapshot, visited, hist, db_accounts, db_clients, config,
          replies, app_calls,
          lock, session, committed,
          cmdlog,
          paging,
          db_pchats, dmlog, dbfile, mig>>

(* ------------------------------ helpers ------------------------------- *)

\* str.lower() on the names of a run
Lower(h) == IF h = "Bob" THEN "bob" ELSE h

Range(s) == {s[i] : i \in DOMAIN s}
Ids(s) == {s[i].id : i \in DOMAIN s}
SetMax(S) == CHOOSE x \in S : \A y \in S : y <= x
\* C18 mutant: the batch is walked in the order the remote returned it
ReverseNot(s) == s

Reverse(s) == [i \in 1..Len(s) |-> s[Len(s) + 1 - i]]

(* ------------------------- the remote network ------------------------- *)

\* the events the remote network can produce (id filled in on arrival)
NotifShapes ==
    { [id |-> 0, type |-> "mention", visibility |-> "direct", mentions |-> 1,
       spam |-> FALSE, acct |-> "bob", status |-> "s1", selfm |-> TRUE],
      [id |-> 0, type |-> "mention", visibility |-> "direct", mentions |-> 1,
       spam |-> TRUE, acct |-> "bob", status |-> "s1", selfm |-> TRUE],
      [id |-> 0, type |-> "mention", visibility |-> "public", mentions |-> 1,
       spam |-> FALSE, acct |-> "bob", status |-> "s1", selfm |-> TRUE],
      [id |-> 0, type |-> "favourite", visibility |-> "public", mentions |-> 0,
       spam |-> FALSE, acct |-> "bob", status |-> "s1", selfm |-> FALSE] }

HomeShapes ==
    { [id |-> 0, type |-> "status", visibility |-> "public", mentions |-> 0,
       spam |-> FALSE, acct |-> "bob", status |-> "s1", selfm |-> FALSE],
      [id |-> 0, type |-> "status", visibility |-> "public", mentions |-> 1,
       spam |-> FALSE, acct |-> "bob", status |-> "s1", selfm |-> TRUE] }

\* the further notifications the classifier and the grouping tell apart: a
\* second favourite of the same post, a boost, a follow (no status), a direct
\* mention with two recipients, and two kinds the code does not name, one
\* with a status (poll) and one without (follow_request)
MoreNotifShapes ==
    { [id |-> 0, type |-> "favourite", visibility |-> "public", mentions |-> 0,
       spam |-> FALSE, acct |-> "carol", status |-> "s1", selfm |-> FALSE],
      [id |-> 0, type |-> "reblog", visibility |-> "public", mentions |-> 0,
       spam |-> FALSE, acct |-> "bob", status |-> "s1", selfm |-> FALSE],
      [id |-> 0, type |-> "follow", visibility |-> "public", mentions |-> 0,
       spam |-> FALSE, acct |-> "bob", status |-> "none", selfm |-> FALSE],
      [id |-> 0, type |-> "mention", visibility |-> "direct", mentions |-> 2,
       spam |-> FALSE, acct |-> "bob", status |-> "s1", selfm |-> TRUE],
      [id |-> 0, type |-> "poll", visibility |-> "public", mentions |-> 0,
       spam |-> FALSE, acct |-> "bob", status |-> "s1", selfm |-> FALSE],
      [id |-> 0, type |-> "follow_request", visibility |-> "public", mentions |-> 0,
       spam |-> FALSE, acct |-> "bob", status |-> "none", selfm |-> FALSE] }

ClassifyShapes == NotifShapes \cup MoreNotifShapes

\* the identities that receive events in a run
EvAddr == {"a1", "a2"}

\* masto.notifications(min_id=c, limit=n) / masto.timeline_home(min_id=c, limit=n):
\* the page of at most n events immediately newer than c (the newest n when c
\* is null), newest first
Fetch(stream, c, n) ==
    LET newer == SelectSeq(stream, LAMBDA e : c = Null \/ e.id > c)
        k == Len(newer)
    IN  IF k <= n THEN newer
        ELSE IF c = Null THEN SubSeq(newer, 1, n)
        ELSE SubSeq(newer, k - n + 1, k)

\* a new notification or timeline post appears on the remote side
RemoteNotif(a, sh) ==
    /\ nextId <= MaxEv
    /\ remoteNotif' = [remoteNotif EXCEPT ![a] = <<[sh EXCEPT !.id = nextId]>> \o @]
    /\ nextId' = nextId + 1
    /\ UNCHANGED <<accounts, dmchats, nextChat, remoteHome, sent, reports, pc,
                   instances, keys, cur, toots, dmq, chats, outbox, hpc, hreq,
                   snapshot, visited, hist,
                   db_accounts, db_clients, config, replies, app_calls,
                   lock, session, committed,
                   cmdlog,
                   paging,
                   db_pchats, dmlog, dbfile, mig>>

RemoteHome(a, sh) ==
    /\ nextId <= MaxEv
    /\ remoteHome' = [remoteHome EXCEPT ![a] = <<[sh EXCEPT !.id = nextId]>> \o @]
    /\ nextId' = nextId + 1
    /\ UNCHANGED <<accounts, dmchats, nextChat, remoteNotif, sent, reports, pc,
                   instances, keys, cur, toots, dmq, chats, outbox, hpc, hreq,
                   snapshot, visited, hist,
                   db_accounts, db_clients, config, replies, app_calls,
                   lock, session, committed,
                   cmdlog,
                   paging,
                   db_pchats, dmlog, dbfile, mig>>

(* ----------------------------- classifier ----------------------------- *)

\* C16 mutant: the number of recipients is not looked at
IsDmAnyDirect(t) ==
    /\ t.type = "mention"
    /\ t.visibility = "direct"

\* _check_notifications: the test that routes a notification to _handle_dms
IsDm(t) ==
    /\ t.type = "mention"
    /\ t.visibility = "direct"
    /\ t.mentions = 1

\* not any(keyword in content for keyword in SPAM)
NotSpam(t) == ~t.spam

\* C14 mutant: the direct messages are not taken out of the notifications
NotificationsWithDms(batch, muted_notif) ==
    SelectSeq(batch, LAMBDA t : ~muted_notif \/ t.type \notin MUTED_NOTIFICATIONS)

\* C38 mutant: the keyword list is not consulted
DmsWithSpam(batch) == SelectSeq(batch, LAMBDA t : IsDm(t))

\* dms: the statuses handed to _handle_dms, in fetch order (newest first)
Dms(batch) == SelectSeq(batch, LAMBDA t : IsDm(t) /\ NotSpam(t))

\* notifications: what is left for the notifications conversation
Notifications(batch, muted_notif) ==
    SelectSeq(batch, LAMBDA t :
        ~IsDm(t) /\ (~muted_notif \/ t.type \notin MUTED_NOTIFICATIONS))

\* the kinds _check_notifications names
Recognized == {"mention", "reblog", "favourite", "follow"}

\* lines 565-570: the notifications that are grouped (boosts, favourites,
\* follows)
AggregableOf(notifications) ==
    SelectSeq(notifications, LAMBDA t : t.type \in {"reblog", "favourite", "follow"})

\* lines 571-572: everything else is appended to mentions
MentionsOf(notifications) ==
    SelectSeq(notifications, LAMBDA t : t.type \notin {"reblog", "favourite", "follow"})

\* keys of a dict filled by setdefault(status.id, []).append(toot), in
\* insertion order
RECURSIVE FirstKeys(_)
FirstKeys(s) ==
    IF s = <<>> THEN <<>>
    ELSE <<Head(s).status>> \o
         FirstKeys(SelectSeq(Tail(s), LAMBDA e : e.status # Head(s).status))

\* C17 mutant: every notification is a group of its own
GroupsSingle(s) == [i \in 1..Len(s) |-> <<s[i]>>]

\* the values of that dict: one list of notifications per target status
Groups(s) ==
    [i \in 1..Len(FirstKeys(s)) |->
        SelectSeq(s, LAMBDA e : e.status = FirstKeys(s)[i])]

\* a message as the chat transport sees it: the conversation, the events it
\* renders, and (history) the pass that sent it
Msg(chat, ids, kind, tup) ==
    [chat |-> chat, ids |-> ids, kind |-> kind, addr |-> tup.addr,
     c |-> IF kind = "home" THEN tup.last_home ELSE tup.last_notif]

\* _check_notifications, second half: the messages for the notifications
\* conversation, in sending order (grouped boosts, grouped favourites, the
\* follows, then the mentions oldest first)
NotifMessages(notifications, tup) ==
    LET rev == Reverse(notifications)
        reblogs == Groups(SelectSeq(rev, LAMBDA t : t.type = "reblog"))
        favs == Groups(SelectSeq(rev, LAMBDA t : t.type = "favourite"))
        follows == SelectSeq(rev, LAMBDA t : t.type = "follow")
        mentions == SelectSeq(rev, LAMBDA t :
                        t.type \notin {"reblog", "favourite", "follow"})
        notifs == reblogs \o favs \o (IF follows = <<>> THEN <<>> ELSE <<follows>>)
    IN  [i \in 1..Len(notifs) |->
            Msg(tup.notifications, Ids(notifs[i]), notifs[i][1].type, tup)]
        \o
        [i \in 1..Len(mentions) |->
            Msg(tup.notifications, {mentions[i].id}, "mention", tup)]

\* C19 mutant: the whole timeline page is rendered
HomeTootsAll(batch) == batch

\* _check_home: posts that mention the account itself are left out
HomeToots(batch) == SelectSeq(batch, LAMBDA t : ~t.selfm)

HomeMessages(batch, tup) ==
    LET rev == Reverse(HomeToots(batch))
    IN  [i \in 1..Len(rev) |-> Msg(tup.home, {rev[i].id}, "home", tup)]

(* --------------------------- initial state ---------------------------- *)

\* mute flags of the rows the run starts with
MutedNotifInit(a) == a = "a2"
MutedHomeInit(a) == a = "a3"

\* an Account row as m_login stores it for address a
NewAccount(a, last_home, last_notif) ==
    [url |-> UrlOf(a), token |-> a, home |-> HomeChat(a),
     notifications |-> NotifChat(a), last_home |-> last_home,
     last_notif |-> last_notif, muted_home |-> MutedHomeInit(a),
     muted_notif |-> MutedNotifInit(a)]

NoTuple ==
    [addr |-> "none", url |-> "none", token |-> "none", home |-> 0,
     last_home |-> Null, muted_home |-> FALSE, notifications |-> 0,
     last_notif |-> Null, muted_notif |-> FALSE]

NoReq == [addr |-> "none", contact |-> "none", last_home |-> Null, last_notif |-> Null]

\* history of the current pass (reset when an account is popped): the ids of
\* the two fetched batches, whether each stage got past its cursor update,
\* whether a remote call was made, whether the row was already gone when the
\* account's turn came (gone) and a remote call was made all the same
\* (stale), and the exception the pass raised
PassHist ==
    [batchN |-> {}, batchH |-> {}, doneN |-> FALSE, doneH |-> FALSE,
     fetched |-> FALSE, gone |-> FALSE, stale |-> FALSE, raised |-> "none"]

\* no sleep computed yet in the cycle
NoSleep == [d |-> 0, e |-> 0, delay |-> 0]

\* history of the current cycle (reset by Listing): whether an exception left
\* _check_mastodon, whether any pass raised, and the instances that had an
\* account synchronized in the current round (reset by RoundEnd), and the
\* configured delay, the elapsed seconds and the sleep computed from them
CycleHist == [escaped |-> FALSE, excAny |-> FALSE, round |-> {}, sleep |-> NoSleep]

\* crashed: the events in flight when the process died; atLogin: the events
\* that existed when m_login looked at the remote streams
InitHist == [pass |-> PassHist, cyc |-> CycleHist, crashed |-> {}, atLogin |-> {}]

\* the scheduler's locals before _check_mastodon has run
LocalsInit ==
    /\ instances = <<>>
    /\ keys = <<>>
    /\ cur = NoTuple
    /\ toots = <<>>
    /\ dmq = <<>>
    /\ chats = {}
    /\ outbox = <<>>

\* the threads that open sessions: the scheduler's and two command handlers
Threads == {"scheduler", "handler1", "handler2"}

\* the rows a session may add or delete
Rows == {"acc", "dm"}

\* no thread is inside session_scope
NoSession == [pc |-> "out", work |-> {}, entry |-> {}, raised |-> FALSE]

\* the lock is free, no session is open and the database file is empty
SessionsInit ==
    /\ lock = "free"
    /\ session = [t \in Threads |-> NoSession]
    /\ committed = {}

\* no command was served yet
NoCmd ==
    [cmd |-> "none", payload |-> "", addr |-> "none", linked |-> FALSE,
     out |-> <<>>, calls |-> 0]

\* no pass over a long stream was made
NoPaging == [n |-> Limit, c0 |-> [notif |-> Null, home |-> Null], fetched |-> {}]

\* no contact conversation was made and no dm step was taken
NoDm ==
    [made |-> {},
     last |-> [kind |-> "none", chat |-> 0, user |-> "", to |-> "", new |-> FALSE]]

\* the pchats table is empty
PchatsInit ==
    /\ db_pchats = {}
    /\ dmlog = NoDm

\* no database file: the state before the first start of the bot
NoFile == [exists |-> FALSE, table |-> FALSE, version |-> 0, account |-> "none"]

\* run_migrations was not called yet
NoRun ==
    [pc |-> "idle", i |-> 0, tx |-> NoFile, runs |-> 0, v0 |-> 0,
     applied |-> <<>>, all |-> <<>>, ended |-> "none", prev |-> "none"]

\* there is no database file and no migration ran
MigrationsInit ==
    /\ dbfile = NoFile
    /\ mig = NoRun

\* the settings deltabot_init writes when none is stored: no limit
NoLimit == -1

\* the command handlers' tables are empty, the settings are the defaults and no
\* command was served
TablesInit ==
    /\ db_accounts = {}
    /\ db_clients = {}
    /\ config = [max_users |-> NoLimit, max_users_instance |-> NoLimit]
    /\ replies = "none"
    /\ app_calls = [u \in Urls |-> 0]

\* three users have just logged in to accounts without any activity yet
Init ==
    /\ accounts = [a \in Addr |-> NewAccount(a, Null, Null)]
    /\ dmchats = {}
    /\ nextChat = FirstDmChat
    /\ remoteNotif = [a \in Addr |-> <<>>]
    /\ remoteHome = [a \in Addr |-> <<>>]
    /\ nextId = 1
    /\ sent = <<>>
    /\ reports = {}
    /\ pc = "Listing"
    /\ LocalsInit
    /\ TablesInit
    /\ SessionsInit
    /\ PchatsInit
    /\ MigrationsInit
    /\ cmdlog = NoCmd
    /\ paging = NoPaging
    /\ hpc = "idle"
    /\ hreq = NoReq
    /\ snapshot = {}
    /\ visited = [a \in Addr |-> 0]
    /\ hist = InitHist

(* -------------------- the scheduler: _check_mastodon ------------------ *)

\* the tuple Listing appends for a row
Tuple(a) ==
    [addr |-> a, url |-> accounts[a].url, token |-> accounts[a].token,
     home |-> accounts[a].home, last_home |-> accounts[a].last_home,
     muted_home |-> accounts[a].muted_home,
     notifications |-> accounts[a].notifications,
     last_notif |-> accounts[a].last_notif,
     muted_notif |-> accounts[a].muted_notif]

\* keys of a dict filled by setdefault(url, []), in insertion order
RECURSIVE UrlKeys(_)
UrlKeys(rows) ==
    IF rows = <<>> THEN <<>>
    ELSE <<Head(rows).url>> \o
         UrlKeys(SelectSeq(Tail(rows), LAMBDA t : t.url # Head(rows).url))

\* instances: one entry per instance url, holding its tuples in row order
GroupByUrl(rows) ==
    [i \in 1..Len(UrlKeys(rows)) |->
        [key |-> UrlKeys(rows)[i],
         q |-> SelectSeq(rows, LAMBDA t : t.url = UrlKeys(rows)[i])]]

\* list(instances.keys())
KeyList(inst) == [i \in 1..Len(inst) |-> inst[i].key]

\* instances[key].pop(), and instances.pop(key) when the group is now empty
PopFrom(inst, key) ==
    LET shorter == [i \in DOMAIN inst |->
                       IF inst[i].key = key
                       THEN [inst[i] EXCEPT !.q = SubSeq(@, 1, Len(@) - 1)]
                       ELSE inst[i]]
    IN  SelectSeq(shorter, LAMBDA e : e.q # <<>>)

\* the tuple instances[key].pop() returns
PopTuple(inst, key) ==
    LET e == CHOOSE x \in Range(inst) : x.key = key
    IN  e.q[Len(e.q)]

\* the locals of a pass are dropped
ResetPassLocals ==
    /\ cur' = NoTuple
    /\ toots' = <<>>
    /\ dmq' = <<>>
    /\ chats' = {}
    /\ outbox' = <<>>

\* Listing: the snapshot of all Account rows, grouped by instance
Listing ==
    /\ pc = "Listing"
    /\ LET rows == [i \in 1..Len(SelectSeq(AddrSeq, LAMBDA a : a \in DOMAIN accounts)) |->
                       Tuple(SelectSeq(AddrSeq, LAMBDA a : a \in DOMAIN accounts)[i])]
       IN  /\ instances' = GroupByUrl(rows)
           /\ keys' = KeyList(GroupByUrl(rows))
           /\ snapshot' = {rows[i].addr : i \in DOMAIN rows}
    /\ visited' = [a \in Addr |-> 0]
    /\ hist' = [hist EXCEPT !.cyc = CycleHist, !.pass = PassHist]
    /\ pc' = "Drain"
    /\ reports' = {}
    /\ ResetPassLocals
    /\ UNCHANGED <<accounts, dmchats, nextChat, remoteNotif, remoteHome, nextId,
                   sent, hpc, hreq,
                   db_accounts, db_clients, config, replies, app_calls,
                   lock, session, committed,
                   cmdlog,
                   paging,
                   db_pchats, dmlog, dbfile, mig>>

\* Draining: take the next account of the round
Pop ==
    /\ pc = "Drain"
    /\ keys # <<>>
    /\ cur' = PopTuple(instances, Head(keys))
    /\ instances' = PopFrom(instances, Head(keys))
    /\ keys' = Tail(keys)
    /\ toots' = <<>>
    /\ dmq' = <<>>
    /\ chats' = {}
    /\ outbox' = <<>>
    /\ reports' = {}
    /\ visited' = [visited EXCEPT ![cur'.addr] = @ + 1]
    /\ hist' = [hist EXCEPT !.pass =
                   [PassHist EXCEPT !.gone = cur'.addr \notin DOMAIN accounts],
                            !.cyc.round = @ \cup {Head(keys)}]
    /\ pc' = "notif_fetch"
    /\ UNCHANGED <<accounts, dmchats, nextChat, remoteNotif, remoteHome, nextId,
                   sent, hpc, hreq, snapshot,
                   db_accounts, db_clients, config, replies, app_calls,
                   lock, session, committed,
                   cmdlog,
                   paging,
                   db_pchats, dmlog, dbfile, mig>>

\* lines 272-288 when the session raises (the database is locked or gone)
ListingRaise ==
    /\ pc = "Listing"
    /\ pc' = "raised"
    /\ hist' = [hist EXCEPT !.cyc.escaped = TRUE]
    /\ UNCHANGED <<accounts, dmchats, nextChat, remoteNotif, remoteHome, nextId,
                   sent, reports, instances, keys, cur, toots, dmq, chats, outbox,
                   hpc, hreq, snapshot, visited,
                   db_accounts, db_clients, config, replies, app_calls,
                   lock, session, committed,
                   cmdlog,
                   paging,
                   db_pchats, dmlog, dbfile, mig>>

\* the round is over (time.sleep(2)) and accounts are still pending
RoundEnd ==
    /\ pc = "Drain"
    /\ keys = <<>>
    /\ instances # <<>>
    /\ keys' = KeyList(instances)
    /\ hist' = [hist EXCEPT !.cyc.round = {}]
    /\ UNCHANGED <<accounts, dmchats, nextChat, remoteNotif, remoteHome, nextId,
                   sent, reports, pc, instances, cur, toots, dmq, chats, outbox,
                   hpc, hreq, snapshot, visited,
                   db_accounts, db_clients, config, replies, app_calls,
                   lock, session, committed,
                   cmdlog,
                   paging,
                   db_pchats, dmlog, dbfile, mig>>

\* C24 mutant: the remaining time is slept without a minimum
DelayNoFloor(d, elapsed) == d - elapsed

\* line 351: max(int(getdefault(bot, "delay")) - elapsed, 10)
Delay(d, elapsed) == IF d - elapsed >= MinDelay THEN d - elapsed ELSE MinDelay

\* every group is empty: compute the delay from the setting and from the whole
\* seconds since start_time (line 350), and go to sleep
DrainEnd ==
    /\ pc = "Drain"
    /\ keys = <<>>
    /\ instances = <<>>
    /\ \E d \in Delays : \E elapsed \in Elapsed :
          hist' = [hist EXCEPT !.cyc.sleep =
                      [d |-> d, e |-> elapsed, delay |-> Delay(d, elapsed)]]
    /\ pc' = "Sleeping"
    /\ UNCHANGED <<accounts, dmchats, nextChat, remoteNotif, remoteHome, nextId,
                   sent, reports, instances, keys, cur, toots, dmq, chats, outbox,
                   hpc, hreq, snapshot, visited,
                   db_accounts, db_clients, config, replies, app_calls,
                   lock, session, committed,
                   cmdlog,
                   paging,
                   db_pchats, dmlog, dbfile, mig>>

\* int(getdefault(bot, "delay")) raises (the setting is not a number)
DelayRaise ==
    /\ pc = "Drain"
    /\ keys = <<>>
    /\ instances = <<>>
    /\ pc' = "raised"
    /\ hist' = [hist EXCEPT !.cyc.escaped = TRUE]
    /\ UNCHANGED <<accounts, dmchats, nextChat, remoteNotif, remoteHome, nextId,
                   sent, reports, instances, keys, cur, toots, dmq, chats, outbox,
                   hpc, hreq, snapshot, visited,
                   db_accounts, db_clients, config, replies, app_calls,
                   lock, session, committed,
                   cmdlog,
                   paging,
                   db_pchats, dmlog, dbfile, mig>>

\* time.sleep(delay) returns: the next cycle begins
Wake ==
    /\ pc = "Sleeping"
    /\ pc' = "Listing"
    /\ hist' = [hist EXCEPT !.cyc.sleep = NoSleep]
    /\ UNCHANGED <<accounts, dmchats, nextChat, remoteNotif, remoteHome, nextId,
                   sent, reports, instances, keys, cur, toots, dmq, chats, outbox,
                   hpc, hreq, snapshot, visited,
                   db_accounts, db_clients, config, replies, app_calls,
                   lock, session, committed,
                   cmdlog,
                   paging,
                   db_pchats, dmlog, dbfile, mig>>

(* ------ faulty variants of the definitions below, one per claim ------- *)

\* C1 mutant: the fetch ignores the cursor
NotifBatchNoCursor(tup) == Fetch(remoteNotif[tup.addr], Null, Limit)

\* C2 mutant: the cursor is assigned but the session never stores it
SetLastNotifLost(accs, addr, batch) == accs

\* C3 mutant: the cursor moves to the oldest id of the batch
OldestCursor(batch) == batch[Len(batch)].id

\* C11 mutant: the stored conversation is never found
GetChatIdMiss(rows, addr, acct) == 0

(* ------------- per-account synchronization (lines 313-348) ------------ *)

\* acc.last_notif = last_id = toots[0].id  /  acc.last_home = last_id = toots[0].id
NewCursor(batch) == batch[1].id

\* the session that stores the notifications cursor
SetLastNotif(accs, addr, batch) ==
    [accs EXCEPT ![addr].last_notif = NewCursor(batch)]

\* the session that stores the home cursor
SetLastHome(accs, addr, batch) ==
    [accs EXCEPT ![addr].last_home = NewCursor(batch)]

\* the batch _check_notifications asks the remote for
NotifBatch(tup) == Fetch(remoteNotif[tup.addr], tup.last_notif, Limit)

\* the batch _check_home asks the remote for
HomeBatch(tup) == Fetch(remoteHome[tup.addr], tup.last_home, Limit)

\* after _check_notifications: the home timeline, unless muted
\* C21 mutant: the home timeline is checked whatever the flag
HomeStageAlways(tup) == "home_fetch"

HomeStage(tup) == IF tup.muted_home THEN "acc_done" ELSE "home_fetch"

\* C35 mutant: the home timeline is checked before the notifications are sent
AfterClassifyHomeFirst(dq, notifications, tup) == HomeStage(tup)

\* where _check_notifications continues once the batch is classified: the
\* direct messages first (if dms), then the notifications (if notifications)
AfterClassify(dq, notifications, tup) ==
    IF dq # <<>> THEN "dm_lookup"
    ELSE IF notifications # <<>> THEN "notif_group"
    ELSE HomeStage(tup)

\* chats.get(acct, 0)
ChatOf(cache, acct) ==
    IF \E r \in cache : r.acct = acct
    THEN (CHOOSE r \in cache : r.acct = acct).chat_id
    ELSE 0

\* _get_chat_id: session.query(DmChat).filter_by(acc_addr=addr, contact=acct).first()
GetChatId(rows, addr, acct) ==
    LET hit == {r \in rows : r.acc_addr = addr /\ r.contact = acct}
    IN  IF hit = {} THEN 0
        ELSE (CHOOSE r \in hit : \A o \in hit : r.chat_id <= o.chat_id).chat_id

\* masto.notifications(min_id=last_id, limit=100) returns a page
NotifFetch ==
    /\ pc = "notif_fetch"
    /\ toots' = NotifBatch(cur)
    /\ hist' = [hist EXCEPT !.pass.fetched = TRUE,
                            !.pass.stale = hist.pass.gone,
                            !.pass.batchN = Ids(toots')]
    /\ pc' = "notif_commit"
    /\ UNCHANGED <<accounts, dmchats, nextChat, remoteNotif, remoteHome, nextId,
                   sent, reports, instances, keys, cur, dmq, chats, outbox, hpc,
                   hreq, snapshot, visited,
                   db_accounts, db_clients, config, replies, app_calls,
                   lock, session, committed,
                   cmdlog,
                   paging,
                   db_pchats, dmlog, dbfile, mig>>

\* lines 537-551: store the cursor, then classify the batch
NotifCommit ==
    /\ pc = "notif_commit"
    /\ IF toots = <<>>
       THEN /\ pc' = HomeStage(cur)
            /\ hist' = [hist EXCEPT !.pass.doneN = TRUE]
            /\ UNCHANGED <<accounts, dmq, outbox>>
       ELSE IF cur.addr \notin DOMAIN accounts
       THEN \* acc is None: acc.last_notif = ... raises AttributeError
            /\ pc' = "h_exc"
            /\ hist' = [hist EXCEPT !.pass.raised = "exception",
                                    !.cyc.excAny = TRUE]
            /\ UNCHANGED <<accounts, dmq, outbox>>
       ELSE /\ accounts' = SetLastNotif(accounts, cur.addr, toots)
            /\ dmq' = Reverse(Dms(toots))
            /\ outbox' = <<>>
            /\ pc' = AfterClassify(dmq', Notifications(toots, cur.muted_notif), cur)
            /\ hist' = [hist EXCEPT !.pass.doneN = TRUE]
    /\ UNCHANGED <<dmchats, nextChat, remoteNotif, remoteHome, nextId, sent,
                   reports, instances, keys, cur, toots, chats, hpc, hreq,
                   snapshot, visited,
                   db_accounts, db_clients, config, replies, app_calls,
                   lock, session, committed,
                   cmdlog,
                   paging,
                   db_pchats, dmlog, dbfile, mig>>

\* _handle_dms, lines 499-502: the cached or stored conversation of the sender
DmLookup ==
    /\ pc = "dm_lookup"
    /\ LET acct == Head(dmq).acct
           chat_id == IF ChatOf(chats, acct) # 0 THEN ChatOf(chats, acct)
                      ELSE GetChatId(dmchats, cur.addr, acct)
       IN  /\ chats' = IF chat_id # 0
                       THEN {r \in chats : r.acct # acct}
                            \cup {[acct |-> acct, chat_id |-> chat_id]}
                       ELSE chats
           /\ pc' = IF chat_id # 0 THEN "dm_send" ELSE "dm_create"
    /\ UNCHANGED <<accounts, dmchats, nextChat, remoteNotif, remoteHome, nextId,
                   sent, reports, instances, keys, cur, toots, dmq, outbox, hpc,
                   hreq, snapshot, visited, hist,
                   db_accounts, db_clients, config, replies, app_calls,
                   lock, session, committed,
                   cmdlog,
                   paging,
                   db_pchats, dmlog, dbfile, mig>>

\* _handle_dms, lines 507-510: create the conversation and store the DmChat row
DmCreate ==
    /\ pc = "dm_create"
    /\ LET acct == Head(dmq).acct
       IN  /\ chats' = {r \in chats : r.acct # acct}
                       \cup {[acct |-> acct, chat_id |-> nextChat]}
           /\ dmchats' = dmchats \cup
                  {[chat_id |-> nextChat, contact |-> acct, acc_addr |-> cur.addr]}
    /\ nextChat' = nextChat + 1
    /\ pc' = "dm_send"
    /\ UNCHANGED <<accounts, remoteNotif, remoteHome, nextId, sent, reports,
                   instances, keys, cur, toots, dmq, outbox, hpc, hreq, snapshot,
                   visited, hist,
                   db_accounts, db_clients, config, replies, app_calls,
                   lock, session, committed,
                   cmdlog,
                   paging,
                   db_pchats, dmlog, dbfile, mig>>

\* _handle_dms, lines 521-522: deliver the direct message
DmSend ==
    /\ pc = "dm_send"
    /\ sent' = Append(sent, Msg(ChatOf(chats, Head(dmq).acct), {Head(dmq).id}, "dm", cur))
    /\ dmq' = Tail(dmq)
    /\ pc' = AfterClassify(dmq', Notifications(toots, cur.muted_notif), cur)
    /\ UNCHANGED <<accounts, dmchats, nextChat, remoteNotif, remoteHome, nextId,
                   reports, instances, keys, cur, toots, chats, outbox, hpc, hreq,
                   snapshot, visited, hist,
                   db_accounts, db_clients, config, replies, app_calls,
                   lock, session, committed,
                   cmdlog,
                   paging,
                   db_pchats, dmlog, dbfile, mig>>

\* line 572: mentions.append(toot.status) reads the status of a notification
\* that is no boost, favourite or follow; a notification without one
\* (follow_request, admin.sign_up) raises AttributeError
NoStatus(notifications) ==
    \E i \in DOMAIN notifications :
       /\ notifications[i].type \notin {"reblog", "favourite", "follow"}
       /\ notifications[i].status = "none"

\* lines 560-576: group the notifications and render them
NotifGroup ==
    /\ pc = "notif_group"
    /\ LET notifications == Notifications(toots, cur.muted_notif)
       IN  IF NoStatus(notifications)
           THEN /\ pc' = "h_exc"
                /\ hist' = [hist EXCEPT !.pass.raised = "exception",
                                        !.cyc.excAny = TRUE]
                /\ UNCHANGED outbox
           ELSE /\ outbox' = NotifMessages(notifications, cur)
                /\ pc' = "notif_send"
                /\ UNCHANGED hist
    /\ UNCHANGED <<accounts, dmchats, nextChat, remoteNotif, remoteHome, nextId,
                   sent, reports, instances, keys, cur, toots, dmq, chats, hpc,
                   hreq, snapshot, visited,
                   db_accounts, db_clients, config, replies, app_calls,
                   lock, session, committed,
                   cmdlog,
                   paging,
                   db_pchats, dmlog, dbfile, mig>>

\* lines 577-584: deliver one message to the notifications conversation
NotifSend ==
    /\ pc = "notif_send"
    /\ sent' = Append(sent, Head(outbox))
    /\ outbox' = Tail(outbox)
    /\ pc' = IF outbox' # <<>> THEN "notif_send" ELSE HomeStage(cur)
    /\ UNCHANGED <<accounts, dmchats, nextChat, remoteNotif, remoteHome, nextId,
                   reports, instances, keys, cur, toots, dmq, chats, hpc, hreq,
                   snapshot, visited, hist,
                   db_accounts, db_clients, config, replies, app_calls,
                   lock, session, committed,
                   cmdlog,
                   paging,
                   db_pchats, dmlog, dbfile, mig>>

\* masto.me() and masto.timeline_home(min_id=last_id, limit=100) return
HomeFetch ==
    /\ pc = "home_fetch"
    /\ toots' = HomeBatch(cur)
    /\ hist' = [hist EXCEPT !.pass.fetched = TRUE, !.pass.batchH = Ids(toots')]
    /\ pc' = "home_commit"
    /\ UNCHANGED <<accounts, dmchats, nextChat, remoteNotif, remoteHome, nextId,
                   sent, reports, instances, keys, cur, dmq, chats, outbox, hpc,
                   hreq, snapshot, visited,
                   db_accounts, db_clients, config, replies, app_calls,
                   lock, session, committed,
                   cmdlog,
                   paging,
                   db_pchats, dmlog, dbfile, mig>>

\* lines 593-599: store the cursor, then filter the batch
HomeCommit ==
    /\ pc = "home_commit"
    /\ IF toots = <<>>
       THEN /\ pc' = "acc_done"
            /\ hist' = [hist EXCEPT !.pass.doneH = TRUE]
            /\ UNCHANGED <<accounts, outbox>>
       ELSE IF cur.addr \notin DOMAIN accounts
       THEN /\ pc' = "h_exc"
            /\ hist' = [hist EXCEPT !.pass.raised = "exception",
                                    !.cyc.excAny = TRUE]
            /\ UNCHANGED <<accounts, outbox>>
       ELSE /\ accounts' = SetLastHome(accounts, cur.addr, toots)
            /\ outbox' = HomeMessages(toots, cur)
            /\ pc' = IF outbox' # <<>> THEN "home_send" ELSE "acc_done"
            /\ hist' = [hist EXCEPT !.pass.doneH = TRUE]
    /\ UNCHANGED <<dmchats, nextChat, remoteNotif, remoteHome, nextId, sent,
                   reports, instances, keys, cur, toots, dmq, chats, hpc, hreq,
                   snapshot, visited,
                   db_accounts, db_clients, config, replies, app_calls,
                   lock, session, committed,
                   cmdlog,
                   paging,
                   db_pchats, dmlog, dbfile, mig>>

\* lines 602-606: deliver one post to the home conversation
HomeSend ==
    /\ pc = "home_send"
    /\ sent' = Append(sent, Head(outbox))
    /\ outbox' = Tail(outbox)
    /\ pc' = IF outbox' # <<>> THEN "home_send" ELSE "acc_done"
    /\ UNCHANGED <<accounts, dmchats, nextChat, remoteNotif, remoteHome, nextId,
                   reports, instances, keys, cur, toots, dmq, chats, hpc, hreq,
                   snapshot, visited, hist,
                   db_accounts, db_clients, config, replies, app_calls,
                   lock, session, committed,
                   cmdlog,
                   paging,
                   db_pchats, dmlog, dbfile, mig>>

\* line 322: the account is done, back to the round
AccDone ==
    /\ pc = "acc_done"
    /\ pc' = "Drain"
    /\ UNCHANGED <<accounts, dmchats, nextChat, remoteNotif, remoteHome, nextId,
                   sent, reports, instances, keys, cur, toots, dmq, chats, outbox,
                   hpc, hreq, snapshot, visited, hist,
                   db_accounts, db_clients, config, replies, app_calls,
                   lock, session, committed,
                   cmdlog,
                   paging,
                   db_pchats, dmlog, dbfile, mig>>

(* ------------------- failures and their handlers ---------------------- *)

\* session.delete(acc) with cascade "all, delete, delete-orphan" on dm_chats
DeleteAccount(accs, addr) == [a \in DOMAIN accs \ {addr} |-> accs[a]]

\* the DmChat rows left after the cascade
DeleteDmChats(rows, addr) == {r \in rows : r.acc_addr # addr}

\* a remote call raises MastodonUnauthorizedError (the token was revoked)
FetchUnauthorized ==
    /\ pc \in {"notif_fetch", "home_fetch"}
    /\ pc' = "h_unauth"
    /\ hist' = [hist EXCEPT !.pass.fetched = TRUE,
                            !.pass.stale = @ \/ hist.pass.gone,
                            !.pass.raised = "unauthorized",
                            !.cyc.excAny = TRUE]
    /\ UNCHANGED <<accounts, dmchats, nextChat, remoteNotif, remoteHome, nextId,
                   sent, reports, instances, keys, cur, toots, dmq, chats, outbox,
                   hpc, hreq, snapshot, visited,
                   db_accounts, db_clients, config, replies, app_calls,
                   lock, session, committed,
                   cmdlog,
                   paging,
                   db_pchats, dmlog, dbfile, mig>>

\* a remote call raises MastodonNetworkError or MastodonServerError:
\* lines 342-343 log it and go on with the round
FetchNetworkError ==
    /\ pc \in {"notif_fetch", "home_fetch"}
    /\ pc' = "Drain"
    /\ hist' = [hist EXCEPT !.pass.fetched = TRUE,
                            !.pass.stale = @ \/ hist.pass.gone,
                            !.pass.raised = "network",
                            !.cyc.excAny = TRUE]
    /\ UNCHANGED <<accounts, dmchats, nextChat, remoteNotif, remoteHome, nextId,
                   sent, reports, instances, keys, cur, toots, dmq, chats, outbox,
                   hpc, hreq, snapshot, visited,
                   db_accounts, db_clients, config, replies, app_calls,
                   lock, session, committed,
                   cmdlog,
                   paging,
                   db_pchats, dmlog, dbfile, mig>>

\* a remote call raises any other exception (rate limit, API error)
FetchError ==
    /\ pc \in {"notif_fetch", "home_fetch"}
    /\ pc' = "h_exc"
    /\ hist' = [hist EXCEPT !.pass.fetched = TRUE,
                            !.pass.stale = @ \/ hist.pass.gone,
                            !.pass.raised = "exception",
                            !.cyc.excAny = TRUE]
    /\ UNCHANGED <<accounts, dmchats, nextChat, remoteNotif, remoteHome, nextId,
                   sent, reports, instances, keys, cur, toots, dmq, chats, outbox,
                   hpc, hreq, snapshot, visited,
                   db_accounts, db_clients, config, replies, app_calls,
                   lock, session, committed,
                   cmdlog,
                   paging,
                   db_pchats, dmlog, dbfile, mig>>

\* the chat transport raises while a message is delivered
DeliveryFail ==
    /\ pc \in {"dm_send", "notif_send", "home_send"}
    /\ pc' = "h_exc"
    /\ hist' = [hist EXCEPT !.pass.raised = "exception", !.cyc.excAny = TRUE]
    /\ UNCHANGED <<accounts, dmchats, nextChat, remoteNotif, remoteHome, nextId,
                   sent, reports, instances, keys, cur, toots, dmq, chats, outbox,
                   hpc, hreq, snapshot, visited,
                   db_accounts, db_clients, config, replies, app_calls,
                   lock, session, committed,
                   cmdlog,
                   paging,
                   db_pchats, dmlog, dbfile, mig>>

\* lines 323-341: delete the account, leave its chats, tell the user
HandleUnauthorized ==
    /\ pc = "h_unauth"
    /\ accounts' = DeleteAccount(accounts, cur.addr)
    /\ dmchats' = DeleteDmChats(dmchats, cur.addr)
    /\ reports' = reports \cup {[addr |-> cur.addr, kind |-> "loggedout"]}
    /\ pc' = "Drain"
    /\ UNCHANGED <<nextChat, remoteNotif, remoteHome, nextId, sent, instances,
                   keys, cur, toots, dmq, chats, outbox, hpc, hreq, snapshot,
                   visited, hist,
                   db_accounts, db_clients, config, replies, app_calls,
                   lock, session, committed,
                   cmdlog,
                   paging,
                   db_pchats, dmlog, dbfile, mig>>

\* lines 323-341 when remove_contact or send_text raises inside the handler:
\* the account is already deleted and the exception leaves _check_mastodon
HandleUnauthorizedRaise ==
    /\ pc = "h_unauth"
    /\ accounts' = DeleteAccount(accounts, cur.addr)
    /\ dmchats' = DeleteDmChats(dmchats, cur.addr)
    /\ hist' = [hist EXCEPT !.cyc.escaped = TRUE]
    /\ pc' = "raised"
    /\ UNCHANGED <<nextChat, remoteNotif, remoteHome, nextId, sent, reports,
                   instances, keys, cur, toots, dmq, chats, outbox, hpc, hreq,
                   snapshot, visited,
                   db_accounts, db_clients, config, replies, app_calls,
                   lock, session, committed,
                   cmdlog,
                   paging,
                   db_pchats, dmlog, dbfile, mig>>

\* C37 mutant: the guard is around the notifications only, the pass goes on
\* to the home timeline
HandleExceptionThenHome ==
    /\ pc = "h_exc"
    /\ reports' = reports \cup {[addr |-> cur.addr, kind |-> "error"]}
    /\ pc' = HomeStage(cur)
    /\ UNCHANGED <<accounts, dmchats, nextChat, remoteNotif, remoteHome, nextId,
                   sent, instances, keys, cur, toots, dmq, chats, outbox, hpc,
                   hreq, snapshot, visited, hist,
                   db_accounts, db_clients, config, replies, app_calls,
                   lock, session, committed,
                   cmdlog,
                   paging,
                   db_pchats, dmlog, dbfile, mig>>

\* lines 344-348: log, and report the error to the user's private chat
HandleException ==
    /\ pc = "h_exc"
    /\ reports' = reports \cup {[addr |-> cur.addr, kind |-> "error"]}
    /\ pc' = "Drain"
    /\ UNCHANGED <<accounts, dmchats, nextChat, remoteNotif, remoteHome, nextId,
                   sent, instances, keys, cur, toots, dmq, chats, outbox, hpc,
                   hreq, snapshot, visited, hist,
                   db_accounts, db_clients, config, replies, app_calls,
                   lock, session, committed,
                   cmdlog,
                   paging,
                   db_pchats, dmlog, dbfile, mig>>

\* lines 344-348 when send_text raises inside the handler
HandleExceptionRaise ==
    /\ pc = "h_exc"
    /\ hist' = [hist EXCEPT !.cyc.escaped = TRUE]
    /\ pc' = "raised"
    /\ UNCHANGED <<accounts, dmchats, nextChat, remoteNotif, remoteHome, nextId,
                   sent, reports, instances, keys, cur, toots, dmq, chats, outbox,
                   hpc, hreq, snapshot, visited,
                   db_accounts, db_clients, config, replies, app_calls,
                   lock, session, committed,
                   cmdlog,
                   paging,
                   db_pchats, dmlog, dbfile, mig>>

\* C7 mutant: nothing catches what leaves _check_mastodon and the thread ends
\* (the loop of the older _listen_to_mastodon has no such guard)
OuterCatchMissing ==
    /\ pc = "raised"
    /\ pc' = "dead"
    /\ UNCHANGED <<accounts, dmchats, nextChat, remoteNotif, remoteHome, nextId,
                   sent, reports, instances, keys, cur, toots, dmq, chats, outbox,
                   hpc, hreq, snapshot, visited, hist,
                   db_accounts, db_clients, config, replies, app_calls,
                   lock, session, committed,
                   cmdlog,
                   paging,
                   db_pchats, dmlog, dbfile, mig>>

\* listen_to_mastodon, lines 262-266: log the exception and call
\* _check_mastodon again
OuterCatch ==
    /\ pc = "raised"
    /\ pc' = "Listing"
    /\ instances' = <<>>
    /\ keys' = <<>>
    /\ ResetPassLocals
    /\ UNCHANGED <<accounts, dmchats, nextChat, remoteNotif, remoteHome, nextId,
                   sent, reports, hpc, hreq, snapshot, visited, hist,
                   db_accounts, db_clients, config, replies, app_calls,
                   lock, session, committed,
                   cmdlog,
                   paging,
                   db_pchats, dmlog, dbfile, mig>>

\* the events of committed batches that are not delivered yet
InFlight ==
    Ids(dmq) \cup UNION {outbox[i].ids : i \in DOMAIN outbox}
    \cup (IF pc \in {"dm_lookup", "dm_create", "dm_send", "notif_group"}
          THEN Ids(Notifications(toots, cur.muted_notif)) ELSE {})

\* the process dies and is started again: only the store, the remote side and
\* the messages already delivered survive
Crash ==
    /\ pc # "Listing" \/ hpc # "idle"
    /\ pc' = "Listing"
    /\ instances' = <<>>
    /\ keys' = <<>>
    /\ ResetPassLocals
    /\ hpc' = "idle"
    /\ hreq' = NoReq
    /\ snapshot' = {}
    /\ visited' = [a \in Addr |-> 0]
    /\ hist' = [hist EXCEPT !.pass = PassHist, !.cyc = CycleHist,
                            !.crashed = @ \cup InFlight]
    /\ reports' = {}
    /\ UNCHANGED <<accounts, dmchats, nextChat, remoteNotif, remoteHome, nextId,
                   sent,
                   db_accounts, db_clients, config, replies, app_calls,
                   lock, session, committed,
                   cmdlog,
                   paging,
                   db_pchats, dmlog, dbfile, mig>>

(* -------------------------- command handlers -------------------------- *)

\* m_logout / _logout: leave the chats, remove the account and its contact
\* chats (DBManager.remove_account), answer
Logout(a) ==
    /\ hpc = "idle"
    /\ a \in DOMAIN accounts
    /\ accounts' = DeleteAccount(accounts, a)
    /\ dmchats' = DeleteDmChats(dmchats, a)
    /\ UNCHANGED <<nextChat, remoteNotif, remoteHome, nextId, sent, reports,
                   pc, instances, keys, cur, toots, dmq, chats, outbox, hpc, hreq,
                   snapshot, visited, hist,
                   db_accounts, db_clients, config, replies, app_calls,
                   lock, session, committed,
                   cmdlog,
                   paging,
                   db_pchats, dmlog, dbfile, mig>>

\* deltabot_member_removed, lines 64-69: the user (or the bot) left the home
\* or the notifications conversation of the account: _logout
MemberRemoved(a) ==
    /\ hpc = "idle"
    /\ a \in DOMAIN accounts
    /\ accounts' = DeleteAccount(accounts, a)
    /\ dmchats' = DeleteDmChats(dmchats, a)
    /\ UNCHANGED <<nextChat, remoteNotif, remoteHome, nextId, sent, reports,
                   pc, instances, keys, cur, toots, dmq, chats, outbox, hpc, hreq,
                   snapshot, visited, hist,
                   db_accounts, db_clients, config, replies, app_calls,
                   lock, session, committed,
                   cmdlog,
                   paging,
                   db_pchats, dmlog, dbfile, mig>>

\* m_dm, lines 245-248: look the contact chat up; answer when it exists
MDmLookup(a, contact) ==
    /\ hpc = "idle"
    /\ a \in DOMAIN accounts
    /\ GetChatId(dmchats, a, contact) = 0
    /\ hpc' = "dm_create"
    /\ hreq' = [NoReq EXCEPT !.addr = a, !.contact = contact]
    /\ UNCHANGED <<accounts, dmchats, nextChat, remoteNotif, remoteHome, nextId,
                   sent, reports, pc, instances, keys, cur, toots, dmq, chats,
                   outbox, snapshot, visited, hist,
                   db_accounts, db_clients, config, replies, app_calls,
                   lock, session, committed,
                   cmdlog,
                   paging,
                   db_pchats, dmlog, dbfile, mig>>

\* m_dm, lines 250-252: create the conversation and store the row
MDmCreate ==
    /\ hpc = "dm_create"
    /\ dmchats' = dmchats \cup
           {[chat_id |-> nextChat, contact |-> hreq.contact, acc_addr |-> hreq.addr]}
    /\ nextChat' = nextChat + 1
    /\ hpc' = "idle"
    /\ hreq' = NoReq
    /\ UNCHANGED <<accounts, remoteNotif, remoteHome, nextId, sent, reports, pc,
                   instances, keys, cur, toots, dmq, chats, outbox, snapshot,
                   visited, hist,
                   db_accounts, db_clients, config, replies, app_calls,
                   lock, session, committed,
                   cmdlog,
                   paging,
                   db_pchats, dmlog, dbfile, mig>>

\* C4 mutant: m_login stores no starting cursor
PrimeCursorNone(stream) == Null

\* m_login, lines 113-116: n[0].id if n else None
PrimeCursor(stream) == IF stream = <<>> THEN Null ELSE stream[1].id

\* m_login, lines 105-116: open the session and take the newest id of each
\* stream as the cursor to start from
LoginPrime(a) ==
    /\ hpc = "idle"
    /\ a \notin DOMAIN accounts
    /\ hpc' = "login_store"
    /\ hreq' = [NoReq EXCEPT !.addr = a,
                             !.last_notif = PrimeCursor(remoteNotif[a]),
                             !.last_home = PrimeCursor(remoteHome[a])]
    /\ hist' = [hist EXCEPT !.atLogin = @ \cup Ids(remoteNotif[a]) \cup Ids(remoteHome[a])]
    /\ UNCHANGED <<accounts, dmchats, nextChat, remoteNotif, remoteHome, nextId,
                   sent, reports, pc, instances, keys, cur, toots, dmq, chats,
                   outbox, snapshot, visited,
                   db_accounts, db_clients, config, replies, app_calls,
                   lock, session, committed,
                   cmdlog,
                   paging,
                   db_pchats, dmlog, dbfile, mig>>

\* m_login, lines 118-125: create the two conversations and store the row
LoginStore ==
    /\ hpc = "login_store"
    /\ accounts' = [a \in DOMAIN accounts \cup {hreq.addr} |->
                       IF a = hreq.addr
                       THEN NewAccount(a, hreq.last_home, hreq.last_notif)
                       ELSE accounts[a]]
    /\ hpc' = "idle"
    /\ hreq' = NoReq
    /\ UNCHANGED <<dmchats, nextChat, remoteNotif, remoteHome, nextId, sent,
                   reports, pc, instances, keys, cur, toots, dmq, chats, outbox,
                   snapshot, visited, hist,
                   db_accounts, db_clients, config, replies, app_calls,
                   lock, session, committed,
                   cmdlog,
                   paging,
                   db_pchats, dmlog, dbfile, mig>>

\* the token a second login of an address obtains
NewToken == "t2"

\* login of an address that logged out before: the row is created anew, with
\* the token of the new authorization and the cursors primed from the streams
LoginAgain(a) ==
    /\ hpc = "idle"
    /\ a \notin DOMAIN accounts
    /\ accounts' = [x \in DOMAIN accounts \cup {a} |->
                       IF x = a
                       THEN [NewAccount(a, PrimeCursor(remoteHome[a]),
                                        PrimeCursor(remoteNotif[a]))
                                EXCEPT !.token = NewToken]
                       ELSE accounts[x]]
    /\ UNCHANGED <<dmchats, nextChat, remoteNotif, remoteHome, nextId, sent,
                   reports, pc, instances, keys, cur, toots, dmq, chats, outbox,
                   hpc, hreq, snapshot, visited, hist, db_accounts, db_clients,
                   config, replies, app_calls, lock, session, committed, cmdlog,
                   paging,
                   db_pchats, dmlog, dbfile, mig>>

(* ------------- command handlers on the tables of db.py ---------------- *)

\* the remote accounts users log in to, as m.me().acct reports them
Users == {"alice", "Bob"}
\* the passwords given with m_login
Passwords == {"p1", "p2"}
\* the local addresses that send commands
CmdAddr == {"a1", "a2"}

\* the logins that succeeded so far: each created two conversations
Logins == (nextChat - FirstDmChat) \div 2

\* INTEGER PRIMARY KEY: the rowid of the next inserted row
NextAccId(rows) == IF rows = {} THEN 1 ELSE SetMax({r.id : r \in rows}) + 1

\* DBManager.get_accounts(url=...)
GetAccounts(rows, url) == {r \in rows : r.api_url = url}

\* C25 mutant: m_login does not look for a row of the remote account
GetAccountByUserNone(rows, name, url) == {}

\* DBManager.get_account_by_user: name.lower() against accname
GetAccountByUser(rows, name, url) ==
    {r \in rows : r.accname = Lower(name) /\ r.api_url = url}

\* C28 mutant: m_login checks no limit
LimitReachedNever(rows, url) == "none"

\* m_login, lines 96-103: the limit that rejects the login, if any
LimitReached(rows, url) ==
    IF config.max_users >= 0 /\ Cardinality(rows) >= config.max_users
    THEN "no_more"
    ELSE IF /\ config.max_users_instance >= 0
            /\ Cardinality(GetAccounts(rows, url)) >= config.max_users_instance
    THEN "no_more_instance"
    ELSE "none"

\* DBManager.get_client
GetClient(rows, url) == {c \in rows : c.api_url = url}

\* m_login: check the limits, open the session (_get_session registers the
\* app when the instance has no client row), refuse a remote account that
\* has a row, else create the two conversations and insert the row
MLogin(addr, url, user, passwd, app_ok) ==
    /\ hpc = "idle"
    /\ IF LimitReached(db_accounts, url) # "none"
       THEN /\ replies' = LimitReached(db_accounts, url)
            /\ UNCHANGED <<db_accounts, db_clients, app_calls, nextChat>>
       ELSE IF GetClient(db_clients, url) = {} /\ ~app_ok
       THEN \* create_app raises: the exception leaves the handler
            /\ app_calls[url] < MaxAppCalls
            /\ app_calls' = [app_calls EXCEPT ![url] = @ + 1]
            /\ replies' = "exception"
            /\ UNCHANGED <<db_accounts, db_clients, nextChat>>
       ELSE /\ IF GetClient(db_clients, url) = {}
               THEN /\ app_calls[url] < MaxAppCalls
                    /\ app_calls' = [app_calls EXCEPT ![url] = @ + 1]
                    /\ db_clients' = db_clients \cup
                           {[api_url |-> url, id |-> url]}
               ELSE UNCHANGED <<app_calls, db_clients>>
            /\ IF GetAccountByUser(db_accounts, user, url) # {}
               THEN /\ replies' = "in_use"
                    /\ UNCHANGED <<db_accounts, nextChat>>
               ELSE /\ Logins < MaxLogins
                    /\ db_accounts' = db_accounts \cup
                           {[id |-> NextAccId(db_accounts), password |-> passwd,
                             api_url |-> url, accname |-> Lower(user),
                             addr |-> addr, home |-> nextChat,
                             notif |-> nextChat + 1,
                             last_home |-> PrimeCursor(remoteHome[addr]),
                             last_notif |-> PrimeCursor(remoteNotif[addr])]}
                    /\ nextChat' = nextChat + 2
                    /\ replies' = "logged_in"
    /\ UNCHANGED <<accounts, dmchats, remoteNotif, remoteHome, nextId, sent,
                   reports, pc, instances, keys, cur, toots, dmq, chats, outbox,
                   hpc, hreq, snapshot, visited, hist, config,
                   lock, session, committed,
                   cmdlog,
                   paging,
                   db_pchats, dmlog, dbfile, mig>>

\* m_logout with an account id (payload), or without one from a chat that is
\* no account's conversation (payload 0): the sender's only account
MLogout(addr, payload) ==
    /\ hpc = "idle"
    /\ LET byId == {r \in db_accounts : r.id = payload}
           own == {r \in db_accounts : r.addr = addr}
           acc == IF payload # 0 THEN byId
                  ELSE IF Cardinality(own) = 1 THEN own ELSE {}
       IN  IF payload # 0 /\ \E r \in byId : r.addr # addr
           THEN /\ replies' = "not_yours"
                /\ UNCHANGED db_accounts
           ELSE IF acc # {}
           THEN /\ db_accounts' = db_accounts \ acc
                /\ replies' = "logged_out"
           ELSE /\ replies' = "unknown"
                /\ UNCHANGED db_accounts
    /\ UNCHANGED <<accounts, dmchats, nextChat, remoteNotif, remoteHome, nextId,
                   sent, reports, pc, instances, keys, cur, toots, dmq, chats,
                   outbox, hpc, hreq, snapshot, visited, hist, db_clients,
                   config, app_calls,
                   lock, session, committed,
                   cmdlog,
                   paging,
                   db_pchats, dmlog, dbfile, mig>>

\* m_logout, lines 139-153: the rows left when addr sends the command with
\* payload (0: none)
LogoutRows(rows, addr, payload) ==
    LET byId == {r \in rows : r.id = payload}
        own == {r \in rows : r.addr = addr}
        acc == IF payload # 0 THEN byId
               ELSE IF Cardinality(own) = 1 THEN own ELSE {}
    IN  IF payload # 0 /\ \E r \in byId : r.addr # addr THEN rows
        ELSE rows \ acc

(* --------- the commands of tests/test_plugin.py on the orm store ------- *)

\* the commands the offline tests send
Commands ==
    {"logout", "bio", "avatar", "dm", "reply", "star", "boost", "open",
     "follow", "unfollow", "mute", "unmute", "block", "unblock", "profile",
     "local", "public", "tag", "search"}

\* the commands served by account_action
ActionCommands == {"follow", "unfollow", "mute", "unmute", "block", "unblock"}

\* what follows the command: nothing, a numeric id, a handle
Payloads == {"", "7", "bob"}

\* str.isdigit() on the payloads of a run
IsDigit(payload) == payload = "7"

\* a reply text: whether it starts with the error mark, and its wording
ErrorReply(text) == [error |-> TRUE, text |-> text]
NoReply == [error |-> FALSE, text |-> ""]

\* a conversation a command arrives in: the sender's one-to-one chat with the
\* bot (id 0, not multiuser) or a group
PrivateChat == [multi |-> FALSE, id |-> 0]
GroupChat(id) == [multi |-> TRUE, id |-> id]
\* a group the bot is in that belongs to no account
OtherGroup == 99

\* the groups of the bridge that address addr is a member of: the
\* conversations of its own account
GroupsOf(addr) ==
    IF addr \in DOMAIN accounts
    THEN {accounts[addr].home, accounts[addr].notifications}
            \cup {r.chat_id : r \in {d \in dmchats : d.acc_addr = addr}}
    ELSE {}

\* the conversations address addr can write a command in
ChatsOf(addr) ==
    {PrivateChat, GroupChat(OtherGroup)} \cup {GroupChat(id) : id \in GroupsOf(addr)}

\* get_account_from_chat: the address of the account that owns the group, or
\* "none"
GetAccountFromChat(chat) ==
    IF chat.multi
    THEN LET own == {a \in DOMAIN accounts :
                       accounts[a].home = chat.id \/ accounts[a].notifications = chat.id}
             dm  == {d \in dmchats : d.chat_id = chat.id}
         IN  IF own # {} THEN CHOOSE a \in own : TRUE
             ELSE IF dm # {} THEN (CHOOSE d \in dm : TRUE).acc_addr
             ELSE "none"
    ELSE "none"

\* get_account_from_msg: the account of the chat, else the sender's
GetAccountFromMsg(chat, addr) ==
    IF GetAccountFromChat(chat) # "none" THEN GetAccountFromChat(chat)
    ELSE IF addr \in DOMAIN accounts THEN addr
    ELSE "none"

\* get_mastodon_from_msg: a client for the account of the message, or None
GetMastodonFromMsg(chat, addr) == GetAccountFromMsg(chat, addr)

\* C31 mutant: the payload is looked at after the user lookup only
AccountActionNoUsageCheck(payload, chat, addr, found) ==
    IF GetMastodonFromMsg(chat, addr) # "none"
    THEN IF IsDigit(payload) THEN [text |-> NoReply, calls |-> 1]
         ELSE IF ~found THEN [text |-> ErrorReply("Invalid user"), calls |-> 1]
         ELSE [text |-> NoReply, calls |-> 2]
    ELSE IF payload = "" THEN [text |-> NoReply, calls |-> 0]
    ELSE [text |-> ErrorReply("You are not logged in"), calls |-> 0]

\* account_action: the text it returns and the remote calls it makes
\* (get_user's search, then the action); found is get_user's result
AccountAction(payload, chat, addr, found) ==
    IF payload = "" THEN [text |-> ErrorReply("Wrong usage"), calls |-> 0]
    ELSE IF GetMastodonFromMsg(chat, addr) # "none"
    THEN IF IsDigit(payload) THEN [text |-> NoReply, calls |-> 1]
         ELSE IF ~found THEN [text |-> ErrorReply("Invalid user"), calls |-> 1]
         ELSE [text |-> NoReply, calls |-> 2]
    ELSE [text |-> ErrorReply("You are not logged in"), calls |-> 0]

\* the commands that need no argument when the sender is logged in
NoArgCommands == {"logout", "avatar", "profile", "local", "public"}

\* the handler of a command other than those of account_action: without an
\* account it reports that the sender is not logged in; a missing argument
\* is a wrong usage; otherwise it makes its remote call
HandlerResult(cmd, payload, chat, addr) ==
    IF GetAccountFromMsg(chat, addr) = "none"
    THEN [text |-> ErrorReply("You are not logged in"), calls |-> 0]
    ELSE IF payload = "" /\ cmd \notin NoArgCommands
    THEN [text |-> ErrorReply("Wrong usage"), calls |-> 0]
    ELSE IF cmd = "logout" THEN [text |-> NoReply, calls |-> 0]
    ELSE [text |-> NoReply, calls |-> 1]

\* a command is served: the handler adds its text, if any, to the replies;
\* logout removes the account it found
Command(cmd, payload, chat, addr, found) ==
    LET res == IF cmd \in ActionCommands
               THEN AccountAction(payload, chat, addr, found)
               ELSE HandlerResult(cmd, payload, chat, addr)
        acc == GetAccountFromMsg(chat, addr)
    IN  /\ hpc = "idle"
        /\ cmdlog' = [cmd |-> cmd, payload |-> payload, addr |-> addr,
                      linked |-> addr \in DOMAIN accounts,
                      out |-> IF res.text = NoReply THEN <<>> ELSE <<res.text>>,
                      calls |-> res.calls]
        /\ IF cmd = "logout" /\ acc # "none"
           THEN /\ accounts' = DeleteAccount(accounts, acc)
                /\ dmchats' = DeleteDmChats(dmchats, acc)
           ELSE UNCHANGED <<accounts, dmchats>>
        /\ UNCHANGED <<nextChat, remoteNotif, remoteHome, nextId, sent, reports,
                       pc, instances, keys, cur, toots, dmq, chats, outbox, hpc,
                       hreq, snapshot, visited, hist, db_accounts, db_clients,
                       config, replies, app_calls, lock, session, committed,
                   paging,
                   db_pchats, dmlog, dbfile, mig>>

(* ------------- m_dm and the pchats table of db.py --------------------- *)

\* the remote accounts the instance knows, by id and acct: the acct of a user
\* of the account's own instance is the bare handle, that of a user of
\* another instance is handle@instance
Directory ==
    { [id |-> "7", acct |-> "bob"], [id |-> "9", acct |-> "eve@far"] }

\* what users write after /m_dm: nothing, a handle with and without the
\* leading @, handle@instance for the own and for another instance, an id
DmPayloads == {"", "@Bob", "bob", "bob@home", "7", "eve@far"}

\* str.lstrip("@") on the payloads of a run
LStripAt(p) == IF p = "@Bob" THEN "Bob" ELSE p

\* user_id.split("@")[0] on the payloads of a run
SplitAt(p) ==
    IF p = "bob@home" THEN "bob" ELSE IF p = "eve@far" THEN "eve" ELSE p

\* _get_user: an id is looked up as it is; a handle is searched and the
\* first result whose acct is the handle, or its part before the @, is taken
GetUser(user_id) ==
    IF IsDigit(user_id) THEN {u \in Directory : u.id = user_id}
    ELSE LET id == Lower(LStripAt(user_id))
         IN  {u \in Directory : Lower(u.acct) \in {id, SplitAt(id)}}

\* DBManager.add_pchat
AddPchat(rows, gid, contact, acc_id) ==
    rows \cup {[id |-> gid, contact |-> Lower(contact), account |-> acc_id]}

\* DBManager.remove_pchat
RemovePchat(rows, gid) == {r \in rows : r.id # gid}

\* DBManager.get_pchat
GetPchat(rows, gid) == {r \in rows : r.id = gid}

\* fetchone(): the first row of the result, in rowid order
FetchOne(rows) == {r \in rows : \A q \in rows : r.id <= q.id}

\* DBManager.get_pchat_by_contact
GetPchatByContact(rows, acc_id, contact) ==
    FetchOne({r \in rows : r.account = acc_id /\ r.contact = Lower(contact)})

\* a dm step as the history keeps it
DmStep(kind, chat, user, to, new) ==
    [kind |-> kind, chat |-> chat, user |-> user, to |-> to, new |-> new]

\* m_dm, line 252: the contact that is stored is the payload
StoredContact(payload, user) == payload

\* m_dm with one argument, sent outside the account's conversations: the
\* sender's only account; the user is resolved, the contact conversation is
\* looked up by the user's acct and created when there is none (the avatar
\* download may fail after the row was stored)
MDm(addr, payload, avatar_ok) ==
    /\ hpc = "idle"
    /\ LET accs == {r \in db_accounts : r.addr = addr}
           name == Lower(LStripAt(payload))
           user == GetUser(name)
       IN  IF Cardinality(accs) # 1
           THEN /\ replies' = "must_send_in_chats"
                /\ UNCHANGED <<db_pchats, nextChat, dmlog>>
           ELSE IF name = ""
           THEN /\ replies' = "wrong_syntax"
                /\ UNCHANGED <<db_pchats, nextChat, dmlog>>
           ELSE IF user = {}
           THEN /\ replies' = "not_found"
                /\ UNCHANGED <<db_pchats, nextChat, dmlog>>
           ELSE LET acc == CHOOSE r \in accs : TRUE
                    u == CHOOSE x \in user : TRUE
                    pv == GetPchatByContact(db_pchats, acc.id, u.acct)
                IN  IF pv # {}
                    THEN /\ replies' = "chat_exists"
                         /\ dmlog' = [dmlog EXCEPT !.last =
                                DmStep("dm", (CHOOSE r \in pv : TRUE).id, u.acct, "", FALSE)]
                         /\ UNCHANGED <<db_pchats, nextChat>>
                    ELSE /\ nextChat < FirstDmChat + MaxPchats
                         /\ db_pchats' = AddPchat(db_pchats, nextChat,
                                                  StoredContact(name, u), acc.id)
                         /\ nextChat' = nextChat + 1
                         /\ replies' = IF avatar_ok THEN "private_chat" ELSE "exception"
                         /\ dmlog' = [made |-> dmlog.made \cup
                                                 {[chat |-> nextChat, user |-> u.acct]},
                                      last |-> DmStep("dm", nextChat, u.acct, "", TRUE)]
    /\ UNCHANGED <<accounts, dmchats, remoteNotif, remoteHome, nextId, sent,
                   reports, pc, instances, keys, cur, toots, dmq, chats, outbox,
                   hpc, hreq, snapshot, visited, hist, db_accounts, db_clients,
                   config, app_calls, lock, session, committed, cmdlog, paging,
                   dbfile, mig>>

\* _check_notifications of __init__.py, lines 954-981: a direct message of
\* user u arrives for the account of addr; it goes to the contact
\* conversation stored for u's acct (the row is removed when the
\* conversation is gone from the chat transport), else to a new one
InboundDm(addr, u, gone) ==
    /\ hpc = "idle"
    /\ \E acc \in {r \in db_accounts : r.addr = addr} :
          LET pv == GetPchatByContact(db_pchats, acc.id, u.acct)
          IN  IF pv # {}
              THEN LET gid == (CHOOSE r \in pv : TRUE).id
                   IN  IF gone
                       THEN /\ db_pchats' = RemovePchat(db_pchats, gid)
                            /\ dmlog' = [made |-> {m \in dmlog.made : m.chat # gid},
                                         last |-> DmStep("gone", gid, u.acct, "", FALSE)]
                            /\ UNCHANGED nextChat
                       ELSE /\ dmlog' = [dmlog EXCEPT !.last =
                                   DmStep("inbound", gid, u.acct, "", FALSE)]
                            /\ UNCHANGED <<db_pchats, nextChat>>
              ELSE /\ nextChat < FirstDmChat + MaxPchats
                   /\ db_pchats' = AddPchat(db_pchats, nextChat, u.acct, acc.id)
                   /\ nextChat' = nextChat + 1
                   /\ dmlog' = [made |-> dmlog.made \cup
                                           {[chat |-> nextChat, user |-> u.acct]},
                                last |-> DmStep("inbound", nextChat, u.acct, "", TRUE)]
    /\ UNCHANGED <<accounts, dmchats, remoteNotif, remoteHome, nextId, sent,
                   reports, pc, instances, keys, cur, toots, dmq, chats, outbox,
                   hpc, hreq, snapshot, visited, hist, db_accounts, db_clients,
                   config, replies, app_calls, lock, session, committed, cmdlog,
                   paging, dbfile, mig>>

\* filter_messages: a message written in an account's home conversation is
\* posted; one written in a contact conversation is sent as a direct post
\* that begins with @ and the stored contact
FilterMessages(gid) ==
    /\ hpc = "idle"
    /\ IF \E r \in db_accounts : r.home = gid
       THEN dmlog' = [dmlog EXCEPT !.last = DmStep("toot", gid, "", "", FALSE)]
       ELSE /\ GetPchat(db_pchats, gid) # {}
            /\ dmlog' = [dmlog EXCEPT !.last =
                   DmStep("relay", gid, "",
                          (CHOOSE r \in GetPchat(db_pchats, gid) : TRUE).contact,
                          FALSE)]
    /\ UNCHANGED <<accounts, dmchats, nextChat, remoteNotif, remoteHome, nextId,
                   sent, reports, pc, instances, keys, cur, toots, dmq, chats,
                   outbox, hpc, hreq, snapshot, visited, hist, db_accounts,
                   db_clients, config, replies, app_calls, lock, session,
                   committed, cmdlog, paging, db_pchats, dbfile, mig>>

(* ----------------------- migrations.py -------------------------------- *)

\* the migrate<i> functions the module defines
Migrations == {1}

\* the account table of a database file: none, the one orm.py declares, the
\* one with the column migrate1 adds
Schemas == {"none", "base", "muted_home"}

\* the database files a start of the bot can find: none, or one at a stored
\* version (0: no row, or no table "database" yet; above DATABASE_VERSION: the
\* file of a later release) with an account table
DbFiles ==
    {NoFile} \cup
    {f \in [exists : {TRUE}, table : BOOLEAN,
            version : 0..(DATABASE_VERSION + 1), account : Schemas] :
        /\ f.version > 0 => f.table
        /\ f.version >= 1 <=> f.account = "muted_home"}

\* the frame of the migration steps
MigrationFrame ==
    UNCHANGED <<accounts, dmchats, nextChat, remoteNotif, remoteHome, nextId,
                sent, reports, pc, instances, keys, cur, toots, dmq, chats,
                outbox, hpc, hreq, snapshot, visited, hist, db_accounts,
                db_clients, config, replies, app_calls, lock, session,
                committed, cmdlog, paging, db_pchats, dmlog>>

\* orm.init: create_engine and create_all make the file and the tables that
\* are missing; a table that exists is left as it is
OrmInit ==
    /\ mig.pc = "idle"
    /\ dbfile' = [dbfile EXCEPT !.exists = TRUE,
                                !.account = IF @ = "none" THEN "base" ELSE @]
    /\ UNCHANGED mig
    /\ MigrationFrame

\* run_migrations, lines 27-33: return when there is no file, else connect
RunMigrations ==
    /\ mig.pc = "idle"
    /\ mig.runs < MaxRuns
    /\ mig' = [mig EXCEPT !.runs = @ + 1, !.applied = <<>>, !.prev = mig.ended,
                          !.i = 0, !.v0 = dbfile.version,
                          !.pc = IF dbfile.exists THEN "version" ELSE "idle",
                          !.ended = IF dbfile.exists THEN "none" ELSE "skipped"]
    /\ UNCHANGED dbfile
    /\ MigrationFrame

\* get_db_version: create the table "database" when it is missing and read
\* the stored version, 0 when there is no row; the loop starts above it
GetDbVersion ==
    /\ mig.pc = "version"
    /\ dbfile' = [dbfile EXCEPT !.table = TRUE]
    /\ mig' = [mig EXCEPT !.pc = "loop", !.v0 = dbfile.version,
                          !.i = dbfile.version + 1]
    /\ MigrationFrame

\* run_migrations, lines 37-42: the loop ends and the connection is closed,
\* or the assertion fails, or the transaction of migration i begins with the
\* REPLACE that stores i
LoopStep ==
    /\ mig.pc = "loop"
    /\ mig' = IF mig.i > DATABASE_VERSION
              THEN [mig EXCEPT !.pc = "idle", !.ended = "done"]
              ELSE IF mig.i \notin Migrations
              THEN [mig EXCEPT !.pc = "idle", !.ended = "raised"]
              ELSE [mig EXCEPT !.pc = "migrate",
                               !.tx = [dbfile EXCEPT !.version = mig.i]]
    /\ UNCHANGED dbfile
    /\ MigrationFrame

\* migrate1: ALTER TABLE account ADD COLUMN fails when there is no such
\* table and when the table has the column
Migrate1Fails(f) == f.account # "base"

\* migrate1 on the open transaction
Migrate1(f) == [f EXCEPT !.account = "muted_home"]

\* C40 mutant: the REPLACE is committed before the ALTER TABLE runs
RollbackAfterImplicitCommit(f, tx) == [f EXCEPT !.version = tx.version]

\* the with block, when the migration raises: the transaction is rolled back
RollbackMigration(f, tx) == f

\* run_migrations, lines 41-45: the migration runs inside the transaction;
\* when it raises (the statement fails, or another connection holds the
\* database locked) the transaction is rolled back, the connection is closed
\* and the exception leaves run_migrations; else both changes are committed
MigrateStep(locked) ==
    /\ mig.pc = "migrate"
    /\ IF Migrate1Fails(mig.tx) \/ locked
       THEN /\ dbfile' = RollbackMigration(dbfile, mig.tx)
            /\ mig' = [mig EXCEPT !.pc = "idle", !.ended = "raised", !.tx = NoFile]
       ELSE /\ dbfile' = Migrate1(mig.tx)
            /\ mig' = [mig EXCEPT !.pc = "loop", !.i = @ + 1, !.tx = NoFile,
                                  !.applied = Append(@, mig.i),
                                  !.all = Append(@, mig.i)]
    /\ MigrationFrame

(* ------------------- session_scope of orm.py (55-67) ------------------ *)

\* everything but the three variables of the sessions
SessionFrame ==
    UNCHANGED <<accounts, dmchats, nextChat, remoteNotif, remoteHome, nextId,
                sent, reports, pc, instances, keys, cur, toots, dmq, chats,
                outbox, hpc, hreq, snapshot, visited, hist, db_accounts,
                db_clients, config, replies, app_calls,
                   cmdlog,
                   paging,
                   db_pchats, dmlog, dbfile, mig>>

\* the threads inside "with _lock:"
Open == {t \in Threads : session[t].pc \notin {"out", "wait"}}

\* a thread reaches "with session_scope() as session:"
Call(t) ==
    /\ session[t].pc = "out"
    /\ session' = [session EXCEPT ![t] = [NoSession EXCEPT !.pc = "wait"]]
    /\ UNCHANGED <<lock, committed>>
    /\ SessionFrame

\* "with _lock:" returns once the lock is free; _Session() reads the file
Acquire(t) ==
    /\ session[t].pc = "wait"
    /\ lock = "free"
    /\ lock' = t
    /\ session' = [session EXCEPT ![t] = [pc |-> "body", work |-> committed,
                                          entry |-> committed, raised |-> FALSE]]
    /\ UNCHANGED committed
    /\ SessionFrame

\* the body adds a row (session.add) or deletes one (session.delete)
Change(t, r) ==
    /\ session[t].pc = "body"
    /\ session' = [session EXCEPT ![t].work =
                      IF r \in @ THEN @ \ {r} ELSE @ \cup {r}]
    /\ UNCHANGED <<lock, committed>>
    /\ SessionFrame

\* the body ends: control returns after the yield
BodyReturns(t) ==
    /\ session[t].pc = "body"
    /\ session' = [session EXCEPT ![t].pc = "commit"]
    /\ UNCHANGED <<lock, committed>>
    /\ SessionFrame

\* the body raises: the exception is thrown into the generator at the yield
BodyRaises(t) ==
    /\ session[t].pc = "body"
    /\ session' = [session EXCEPT ![t].pc = "except"]
    /\ UNCHANGED <<lock, committed>>
    /\ SessionFrame

\* session.commit(): the transaction is written, or commit itself raises
Commit(t, ok) ==
    /\ session[t].pc = "commit"
    /\ IF ok
       THEN /\ committed' = session[t].work
            /\ session' = [session EXCEPT ![t].pc = "finally"]
       ELSE /\ session' = [session EXCEPT ![t].pc = "except"]
            /\ UNCHANGED committed
    /\ UNCHANGED lock
    /\ SessionFrame

\* except Exception: session.rollback(); raise
Rollback(t) ==
    /\ session[t].pc = "except"
    /\ session' = [session EXCEPT ![t].pc = "finally",
                                  ![t].work = session[t].entry,
                                  ![t].raised = TRUE]
    /\ UNCHANGED <<lock, committed>>
    /\ SessionFrame

\* finally: session.close()
Close(t) ==
    /\ session[t].pc = "finally"
    /\ session' = [session EXCEPT ![t].pc = "release"]
    /\ UNCHANGED <<lock, committed>>
    /\ SessionFrame

\* a with statement that keeps the lock when an exception leaves it
ExitKeepsLockOnRaise(t) ==
    /\ session[t].pc = "release"
    /\ lock' = IF session[t].raised THEN lock ELSE "free"
    /\ session' = [session EXCEPT ![t] = NoSession]
    /\ UNCHANGED committed
    /\ SessionFrame

\* the end of "with _lock:": the lock is released, with or without exception,
\* and the session object is gone
Exit(t) ==
    /\ session[t].pc = "release"
    /\ lock' = "free"
    /\ session' = [session EXCEPT ![t] = NoSession]
    /\ UNCHANGED committed
    /\ SessionFrame

\* the steps of a thread from the end of its body to the release of the lock
Finish(t) ==
    \/ BodyReturns(t) \/ BodyRaises(t)
    \/ \E ok \in BOOLEAN : Commit(t, ok)
    \/ Rollback(t) \/ Close(t) \/ Exit(t)

(* --------------------------- specifications --------------------------- *)

\* with a single account a round never ends with accounts still pending
LoopOne ==
    \/ Listing \/ ListingRaise \/ Pop \/ DrainEnd \/ DelayRaise \/ Wake
    \/ OuterCatch

Loop == LoopOne \/ RoundEnd

NotifPass == NotifFetch \/ NotifCommit \/ NotifGroup \/ NotifSend

DmPass == DmLookup \/ DmCreate \/ DmSend

HomePass == HomeFetch \/ HomeCommit \/ HomeSend \/ AccDone

Faults ==
    \/ FetchUnauthorized \/ FetchNetworkError \/ FetchError \/ DeliveryFail
    \/ HandleUnauthorized \/ HandleUnauthorizedRaise
    \/ HandleException \/ HandleExceptionRaise

\* the shapes by name
DmShape == CHOOSE s \in NotifShapes : IsDm(s) /\ ~s.spam
MentionShape == CHOOSE s \in NotifShapes : s.type = "mention" /\ ~IsDm(s)
PostShape == CHOOSE s \in HomeShapes : ~s.selfm

\* Spec: three linked accounts on two instances; the scheduler with every
\* failure, users logging out, mentions and posts arriving
Next ==
    \/ Loop \/ NotifPass \/ HomePass \/ Faults
    \/ \E a \in EvAddr : RemoteNotif(a, MentionShape)
    \/ RemoteHome("a1", PostShape)
    \/ \E a \in Addr : Logout(a)

Spec == Init /\ [][Next]_vars

\* one linked account, no activity yet
InitOne ==
    /\ accounts = [a \in {"a1"} |-> NewAccount(a, Null, Null)]
    /\ dmchats = {}
    /\ nextChat = FirstDmChat
    /\ remoteNotif = [a \in Addr |-> <<>>]
    /\ remoteHome = [a \in Addr |-> <<>>]
    /\ nextId = 1
    /\ sent = <<>>
    /\ reports = {}
    /\ pc = "Listing"
    /\ LocalsInit
    /\ TablesInit
    /\ SessionsInit
    /\ PchatsInit
    /\ MigrationsInit
    /\ cmdlog = NoCmd
    /\ paging = NoPaging
    /\ hpc = "idle"
    /\ hreq = NoReq
    /\ snapshot = {}
    /\ visited = [a \in Addr |-> 0]
    /\ hist = InitHist

\* SpecSync: one account, every kind of event, every failure, and the process
\* dying and restarting at any point
NextSync ==
    \/ LoopOne \/ NotifPass \/ DmPass \/ HomePass \/ Faults
    \/ \E sh \in NotifShapes : RemoteNotif("a1", sh)
    \/ \E sh \in HomeShapes : RemoteHome("a1", sh)
    \/ Crash

SpecSync == InitOne /\ [][NextSync]_vars

\* FairSpec: the scheduler thread of one account with every failure, always
\* getting to run: each of its steps is a call that returns or raises (the
\* remote calls and the sleeps are bounded), so a step that stays possible is
\* taken
SchedulerOne == LoopOne \/ NotifPass \/ HomePass \/ Faults

NextFair ==
    \/ SchedulerOne
    \/ RemoteNotif("a1", MentionShape)
    \/ RemoteHome("a1", PostShape)

FairSpec == InitOne /\ [][NextFair]_vars /\ WF_vars(SchedulerOne)

\* SpecDm: one account receiving direct messages while its user runs the dm
\* command
NextDm ==
    \/ Listing \/ Pop \/ DrainEnd \/ Wake
    \/ NotifFetch \/ NotifCommit \/ DmPass
    \/ HomeFetch \/ HomeCommit \/ AccDone
    \/ RemoteNotif("a1", DmShape)
    \/ \E c \in Contacts : MDmLookup("a1", c)
    \/ MDmCreate

SpecDm == InitOne /\ [][NextDm]_vars

\* SpecNet: two accounts of one instance, events arriving, every failure of
\* a pass and of its handlers; the scheduler thread always gets to run
InitTwo ==
    /\ accounts = [a \in {"a1", "a2"} |-> NewAccount(a, Null, Null)]
    /\ dmchats = {}
    /\ nextChat = FirstDmChat
    /\ remoteNotif = [a \in Addr |-> <<>>]
    /\ remoteHome = [a \in Addr |-> <<>>]
    /\ nextId = 1
    /\ sent = <<>>
    /\ reports = {}
    /\ pc = "Listing"
    /\ LocalsInit
    /\ TablesInit
    /\ SessionsInit
    /\ PchatsInit
    /\ MigrationsInit
    /\ cmdlog = NoCmd
    /\ paging = NoPaging
    /\ hpc = "idle"
    /\ hreq = NoReq
    /\ snapshot = {}
    /\ visited = [a \in Addr |-> 0]
    /\ hist = InitHist

SchedulerNet ==
    \/ Listing \/ Pop \/ RoundEnd \/ DrainEnd \/ Wake
    \/ NotifPass \/ DmPass \/ HomePass
    \/ Faults \/ OuterCatch

NextNet ==
    \/ SchedulerNet
    \/ \E a \in {"a1", "a2"} : RemoteNotif(a, DmShape)
    \/ RemoteNotif("a1", MentionShape)
    \/ RemoteHome("a1", PostShape)

SpecNet == InitTwo /\ [][NextNet]_vars /\ WF_vars(SchedulerNet)

\* one linked account: no mute flag (a1), muted_notif (a2) or muted_home (a3)
InitClassify ==
    /\ \E x \in {"a1", "a2", "a3"} : accounts = [a \in {x} |-> NewAccount(a, Null, Null)]
    /\ dmchats = {}
    /\ nextChat = FirstDmChat
    /\ remoteNotif = [a \in Addr |-> <<>>]
    /\ remoteHome = [a \in Addr |-> <<>>]
    /\ nextId = 1
    /\ sent = <<>>
    /\ reports = {}
    /\ pc = "Listing"
    /\ LocalsInit
    /\ TablesInit
    /\ SessionsInit
    /\ PchatsInit
    /\ MigrationsInit
    /\ cmdlog = NoCmd
    /\ paging = NoPaging
    /\ hpc = "idle"
    /\ hreq = NoReq
    /\ snapshot = {}
    /\ visited = [a \in Addr |-> 0]
    /\ hist = InitHist

\* SpecClassify: one account receiving every kind of notification and post;
\* the only failure is the one the batch itself can cause
NextClassify ==
    \/ Listing \/ Pop \/ DrainEnd \/ Wake \/ OuterCatch
    \/ NotifPass \/ DmPass \/ HomePass
    \/ HandleException \/ HandleExceptionRaise
    \/ \E a \in DOMAIN accounts : \E sh \in ClassifyShapes : RemoteNotif(a, sh)
    \/ \E a \in DOMAIN accounts : \E sh \in HomeShapes : RemoteHome(a, sh)

SpecClassify == InitClassify /\ [][NextClassify]_vars

\* the same sender as DmShape, its handle reported in another letter case
UpperDmShape == [DmShape EXCEPT !.acct = "Bob"]

\* SpecCase: one account receiving direct messages of one contact whose handle
\* arrives in two letter cases
NextCase ==
    \/ Listing \/ Pop \/ DrainEnd \/ Wake
    \/ NotifFetch \/ NotifCommit \/ DmPass
    \/ HomeFetch \/ HomeCommit \/ AccDone
    \/ RemoteNotif("a1", DmShape)
    \/ RemoteNotif("a1", UpperDmShape)

SpecCase == InitOne /\ [][NextCase]_vars

\* SpecCascade: one account with contact chats being created by the scheduler
\* and by the dm command, and the account being destroyed by every path
NextCascade ==
    \/ Listing \/ Pop \/ DrainEnd \/ Wake \/ OuterCatch
    \/ NotifFetch \/ NotifCommit \/ DmPass
    \/ HomeFetch \/ HomeCommit \/ AccDone
    \/ FetchUnauthorized \/ HandleUnauthorized \/ HandleUnauthorizedRaise
    \/ RemoteNotif("a1", DmShape)
    \/ Logout("a1")
    \/ MemberRemoved("a1")
    \/ \E c \in Contacts : MDmLookup("a1", c)
    \/ MDmCreate

SpecCascade == InitOne /\ [][NextCascade]_vars

\* the settings of max_users and max_users_instance of a run: the defaults
\* (no limit), nobody allowed, one account per instance and two in all, one
\* account in all
Configs ==
    { [max_users |-> NoLimit, max_users_instance |-> NoLimit],
      [max_users |-> 0, max_users_instance |-> NoLimit],
      [max_users |-> 2, max_users_instance |-> 1],
      [max_users |-> 1, max_users_instance |-> 2] }

\* SpecCmd: users log in and out with the commands, under every setting of
\* the two limits; app registration may fail
InitCmd ==
    /\ accounts = <<>>
    /\ dmchats = {}
    /\ nextChat = FirstDmChat
    /\ remoteNotif = [a \in Addr |-> <<>>]
    /\ remoteHome = [a \in Addr |-> <<>>]
    /\ nextId = 1
    /\ sent = <<>>
    /\ reports = {}
    /\ pc = "Listing"
    /\ LocalsInit
    /\ hpc = "idle"
    /\ hreq = NoReq
    /\ snapshot = {}
    /\ visited = [a \in Addr |-> 0]
    /\ hist = InitHist
    /\ db_accounts = {}
    /\ db_clients = {}
    /\ config \in Configs
    /\ replies = "none"
    /\ app_calls = [u \in Urls |-> 0]
    /\ SessionsInit
    /\ PchatsInit
    /\ MigrationsInit
    /\ cmdlog = NoCmd
    /\ paging = NoPaging

NextCmd ==
    \/ \E addr \in CmdAddr, url \in Urls, user \in Users, passwd \in Passwords,
          app_ok \in BOOLEAN : MLogin(addr, url, user, passwd, app_ok)
    \/ \E addr \in CmdAddr, payload \in 0..MaxLogins : MLogout(addr, payload)

SpecCmd == InitCmd /\ [][NextCmd]_vars

\* nobody is logged in: the state after deltabot_init
InitEmpty ==
    /\ accounts = <<>>
    /\ dmchats = {}
    /\ nextChat = FirstDmChat
    /\ remoteNotif = [a \in Addr |-> <<>>]
    /\ remoteHome = [a \in Addr |-> <<>>]
    /\ nextId = 1
    /\ sent = <<>>
    /\ reports = {}
    /\ pc = "Listing"
    /\ LocalsInit
    /\ TablesInit
    /\ SessionsInit
    /\ PchatsInit
    /\ MigrationsInit
    /\ cmdlog = NoCmd
    /\ paging = NoPaging
    /\ hpc = "idle"
    /\ hreq = NoReq
    /\ snapshot = {}
    /\ visited = [a \in Addr |-> 0]
    /\ hist = InitHist

\* SpecLogin: a user logs in while events arrive, and is synchronized
NextLogin ==
    \/ Listing \/ Pop \/ DrainEnd \/ Wake
    \/ NotifPass \/ DmPass \/ HomePass
    \/ \E sh \in NotifShapes : RemoteNotif("a1", sh)
    \/ \E sh \in HomeShapes : RemoteHome("a1", sh)
    \/ LoginPrime("a1")
    \/ LoginStore

SpecLogin == InitEmpty /\ [][NextLogin]_vars

\* three threads use sessions; a thread that has entered its body goes on to
\* the end of the with statement, and a thread waiting for the lock gets it
\* when it comes free again and again
NextSession ==
    \/ \E t \in Threads : Call(t)
    \/ \E t \in Threads : Acquire(t)
    \/ \E t \in Threads, r \in Rows : Change(t, r)
    \/ \E t \in Threads : Finish(t)

SpecSession ==
    /\ InitEmpty
    /\ [][NextSession]_vars
    /\ \A t \in Threads : WF_vars(Finish(t)) /\ SF_vars(Acquire(t))

\* SpecCommands: a1 and a2 are logged in, a1 has a contact conversation, a3
\* is not; all three send the commands of the tests, with and without
\* arguments, in the conversations they are in
InitCommands ==
    /\ accounts = [a \in {"a1", "a2"} |-> NewAccount(a, Null, Null)]
    /\ dmchats = {[chat_id |-> FirstDmChat, contact |-> "bob", acc_addr |-> "a1"]}
    /\ nextChat = FirstDmChat + 1
    /\ remoteNotif = [a \in Addr |-> <<>>]
    /\ remoteHome = [a \in Addr |-> <<>>]
    /\ nextId = 1
    /\ sent = <<>>
    /\ reports = {}
    /\ pc = "Listing"
    /\ LocalsInit
    /\ TablesInit
    /\ SessionsInit
    /\ PchatsInit
    /\ MigrationsInit
    /\ cmdlog = NoCmd
    /\ paging = NoPaging
    /\ hpc = "idle"
    /\ hreq = NoReq
    /\ snapshot = {}
    /\ visited = [a \in Addr |-> 0]
    /\ hist = InitHist

NextCommands ==
    \E cmd \in Commands, payload \in Payloads, addr \in Addr, found \in BOOLEAN :
       \E chat \in ChatsOf(addr) : Command(cmd, payload, chat, addr, found)

SpecCommands == InitCommands /\ [][NextCommands]_vars

\* SpecPchat: a1 has one account on the tables of db.py; its user starts
\* contact conversations with m_dm, remote users send direct messages, and
\* the user writes in the conversations
InitPchat ==
    /\ accounts = <<>>
    /\ dmchats = {}
    /\ nextChat = FirstDmChat
    /\ remoteNotif = [a \in Addr |-> <<>>]
    /\ remoteHome = [a \in Addr |-> <<>>]
    /\ nextId = 1
    /\ sent = <<>>
    /\ reports = {}
    /\ pc = "Listing"
    /\ LocalsInit
    /\ db_accounts = {[id |-> 1, password |-> "p1", api_url |-> "u1",
                       accname |-> "alice", addr |-> "a1",
                       home |-> HomeChat("a1"), notif |-> NotifChat("a1"),
                       last_home |-> Null, last_notif |-> Null]}
    /\ db_clients = {[api_url |-> "u1", id |-> "u1"]}
    /\ config = [max_users |-> NoLimit, max_users_instance |-> NoLimit]
    /\ replies = "none"
    /\ app_calls = [u \in Urls |-> 0]
    /\ SessionsInit
    /\ PchatsInit
    /\ MigrationsInit
    /\ cmdlog = NoCmd
    /\ paging = NoPaging
    /\ hpc = "idle"
    /\ hreq = NoReq
    /\ snapshot = {}
    /\ visited = [a \in Addr |-> 0]
    /\ hist = InitHist

NextPchat ==
    \/ \E addr \in CmdAddr, payload \in DmPayloads, avatar_ok \in BOOLEAN :
          MDm(addr, payload, avatar_ok)
    \/ \E u \in Directory, gone \in BOOLEAN : InboundDm("a1", u, gone)
    \/ \E gid \in 1..(nextChat - 1) : FilterMessages(gid)

SpecPchat == InitPchat /\ [][NextPchat]_vars

\* SpecMigrate: the bot starts several times on a database file of any
\* version, or on none; orm.init follows each start
InitMigrate ==
    /\ accounts = <<>>
    /\ dmchats = {}
    /\ nextChat = FirstDmChat
    /\ remoteNotif = [a \in Addr |-> <<>>]
    /\ remoteHome = [a \in Addr |-> <<>>]
    /\ nextId = 1
    /\ sent = <<>>
    /\ reports = {}
    /\ pc = "Listing"
    /\ LocalsInit
    /\ TablesInit
    /\ SessionsInit
    /\ PchatsInit
    /\ dbfile \in DbFiles
    /\ mig = NoRun
    /\ cmdlog = NoCmd
    /\ paging = NoPaging
    /\ hpc = "idle"
    /\ hreq = NoReq
    /\ snapshot = {}
    /\ visited = [a \in Addr |-> 0]
    /\ hist = InitHist

NextMigrate ==
    \/ RunMigrations
    \/ GetDbVersion
    \/ LoopStep
    \/ \E locked \in BOOLEAN : MigrateStep(locked)
    \/ OrmInit

SpecMigrate == InitMigrate /\ [][NextMigrate]_vars

\* SpecStale: one account; its user logs out and logs in again while the
\* scheduler works from its snapshot, and the remote rejects a token
NextStale ==
    \/ Listing \/ Pop \/ DrainEnd \/ Wake
    \/ NotifPass \/ HomePass
    \/ FetchUnauthorized \/ HandleUnauthorized \/ HandleException
    \/ RemoteNotif("a1", MentionShape)
    \/ RemoteHome("a1", PostShape)
    \/ Logout("a1")
    \/ LoginAgain("a1")

SpecStale == InitOne /\ [][NextStale]_vars

(* ------------- passes over streams longer than one page --------------- *)

\* page sizes of the runs that fetch page by page, standing for limit=100
PageLimits == {1, 2}

\* a mention or a post appears on the remote side of address a
PageArrive(a, stream) ==
    /\ nextId <= MaxPageEv
    /\ IF stream = "notif"
       THEN /\ remoteNotif' = [remoteNotif EXCEPT ![a] =
                                  <<[MentionShape EXCEPT !.id = nextId]>> \o @]
            /\ UNCHANGED remoteHome
       ELSE /\ remoteHome' = [remoteHome EXCEPT ![a] =
                                 <<[PostShape EXCEPT !.id = nextId]>> \o @]
            /\ UNCHANGED remoteNotif
    /\ nextId' = nextId + 1
    /\ UNCHANGED <<accounts, dmchats, nextChat, sent, reports, pc, instances,
                   keys, cur, toots, dmq, chats, outbox, hpc, hreq, snapshot,
                   visited, hist, db_accounts, db_clients, config, replies,
                   app_calls, lock, session, committed, cmdlog, paging,
                   db_pchats, dmlog, dbfile, mig>>

\* C36 mutant: since_id instead of min_id: the newest n events above the cursor
FetchNewest(stream, c, n) ==
    LET newer == SelectSeq(stream, LAMBDA e : c = Null \/ e.id > c)
    IN  IF Len(newer) <= n THEN newer ELSE SubSeq(newer, 1, n)

\* the page a pass gets for a stream of address a
PageOf(stream, c, n) == Fetch(stream, c, n)

\* _check_notifications, lines 536-540, for the row of address a: one fetch of
\* at most n events above the stored cursor; the cursor becomes toots[0].id
PassNotif(a) ==
    /\ a \in DOMAIN accounts
    /\ toots' = PageOf(remoteNotif[a], accounts[a].last_notif, paging.n)
    /\ IF toots' # <<>>
       THEN accounts' = SetLastNotif(accounts, a, toots')
       ELSE UNCHANGED accounts
    /\ paging' = [paging EXCEPT !.fetched = @ \cup Ids(toots')]
    /\ UNCHANGED <<dmchats, nextChat, remoteNotif, remoteHome, nextId, sent,
                   reports, pc, instances, keys, cur, dmq, chats, outbox, hpc,
                   hreq, snapshot, visited, hist, db_accounts, db_clients,
                   config, replies, app_calls, lock, session, committed, cmdlog,
                   db_pchats, dmlog, dbfile, mig>>

\* _check_home, lines 592-596, likewise
PassHome(a) ==
    /\ a \in DOMAIN accounts
    /\ toots' = PageOf(remoteHome[a], accounts[a].last_home, paging.n)
    /\ IF toots' # <<>>
       THEN accounts' = SetLastHome(accounts, a, toots')
       ELSE UNCHANGED accounts
    /\ paging' = [paging EXCEPT !.fetched = @ \cup Ids(toots')]
    /\ UNCHANGED <<dmchats, nextChat, remoteNotif, remoteHome, nextId, sent,
                   reports, pc, instances, keys, cur, dmq, chats, outbox, hpc,
                   hreq, snapshot, visited, hist, db_accounts, db_clients,
                   config, replies, app_calls, lock, session, committed, cmdlog,
                   db_pchats, dmlog, dbfile, mig>>

\* SpecPage: a1 logged in when its notifications and its home timeline held
\* one event each; events arrive faster than passes fetch them
InitPage ==
    /\ accounts = [a \in {"a1"} |-> NewAccount(a, 2, 1)]
    /\ dmchats = {}
    /\ nextChat = FirstDmChat
    /\ remoteNotif = [a \in Addr |->
                         IF a = "a1" THEN <<[MentionShape EXCEPT !.id = 1]>> ELSE <<>>]
    /\ remoteHome = [a \in Addr |->
                        IF a = "a1" THEN <<[PostShape EXCEPT !.id = 2]>> ELSE <<>>]
    /\ nextId = 3
    /\ sent = <<>>
    /\ reports = {}
    /\ pc = "Listing"
    /\ LocalsInit
    /\ TablesInit
    /\ SessionsInit
    /\ PchatsInit
    /\ MigrationsInit
    /\ cmdlog = NoCmd
    /\ \E n \in PageLimits :
          paging = [n |-> n, c0 |-> [notif |-> 1, home |-> 2], fetched |-> {}]
    /\ hpc = "idle"
    /\ hreq = NoReq
    /\ snapshot = {}
    /\ visited = [a \in Addr |-> 0]
    /\ hist = InitHist

NextPage ==
    \/ \E stream \in {"notif", "home"} : PageArrive("a1", stream)
    \/ PassNotif("a1")
    \/ PassHome("a1")

SpecPage ==
    /\ InitPage
    /\ [][NextPage]_vars
    /\ WF_vars(PassNotif("a1"))
    /\ WF_vars(PassHome("a1"))

(* ============================== claims ================================ *)

\* the persisted cursor of the stream a message belongs to
CursorOf(m) ==
    IF m.kind = "home" THEN accounts[m.addr].last_home
    ELSE accounts[m.addr].last_notif

\* every event id that reached a conversation
Delivered == UNION {sent[i].ids : i \in DOMAIN sent}

(* C1: a pass that starts from a non-null cursor c works from the persisted
   cursor, and no message it delivers renders an event whose id is at or
   below c. *)
C1_NothingAtOrBelowCursor ==
    /\ \A i \in DOMAIN sent :
          sent[i].c # Null => \A id \in sent[i].ids : id > sent[i].c
    /\ (pc \in {"notif_fetch", "notif_commit"} /\ cur.addr \in DOMAIN accounts)
          => cur.last_notif = accounts[cur.addr].last_notif
    /\ (pc \in {"home_fetch", "home_commit"} /\ cur.addr \in DOMAIN accounts)
          => cur.last_home = accounts[cur.addr].last_home

\* C1 witness: a pass that started from a non-null cursor has delivered
C1_Witness == \E i \in DOMAIN sent : sent[i].c # Null /\ sent[i].ids # {}

(* C2: whenever a message has been delivered (or is about to be: its batch is
   classified and queued), the persisted cursor of its stream already covers
   every event it renders; and no event is ever rendered by two deliveries,
   the process dying and restarting in between included. *)
C2_CommitBeforeDelivery ==
    /\ \A i \in DOMAIN sent :
          sent[i].addr \in DOMAIN accounts =>
             /\ CursorOf(sent[i]) # Null
             /\ \A id \in sent[i].ids : id <= CursorOf(sent[i])
    /\ \A i \in DOMAIN outbox :
          outbox[i].addr \in DOMAIN accounts =>
             /\ CursorOf(outbox[i]) # Null
             /\ \A id \in outbox[i].ids : id <= CursorOf(outbox[i])
    /\ \A i, j \in DOMAIN sent : i # j => sent[i].ids \cap sent[j].ids = {}

\* C2 witness: the process died with committed events still in flight,
\* restarted, and a later pass ran to its end with deliveries on record
C2_Witness ==
    /\ hist.crashed # {}
    /\ Delivered # {}
    /\ pc = "acc_done"
    /\ hist.pass.doneN /\ hist.pass.doneH

(* C3: once a stage of a pass is past its commit, the persisted cursor of the
   stream is the greatest id of the fetched batch (filtered events counted),
   or, when nothing was fetched, the cursor the pass started from. *)
C3_CursorIsMaxOfBatch ==
    cur.addr \in DOMAIN accounts =>
       /\ hist.pass.doneN =>
             accounts[cur.addr].last_notif =
                IF hist.pass.batchN # {} THEN SetMax(hist.pass.batchN)
                ELSE cur.last_notif
       /\ hist.pass.doneH =>
             accounts[cur.addr].last_home =
                IF hist.pass.batchH # {} THEN SetMax(hist.pass.batchH)
                ELSE cur.last_home

\* C3 witness: a batch of two whose newest event was filtered out as spam; the
\* cursor moved to it all the same
C3_Witness ==
    /\ pc = "home_fetch"
    /\ hist.pass.doneN
    /\ Len(toots) = 2
    /\ IsDm(toots[1]) /\ toots[1].spam
    /\ cur.addr \in DOMAIN accounts
    /\ accounts[cur.addr].last_notif = toots[1].id
    /\ toots[1].id \notin Delivered

(* C4: a first pass over an account whose cursor is null delivers none of the
   events that existed when the user logged in, and it leaves the cursor
   non-null exactly when its fetch returned at least one event (an account
   whose stream is still empty keeps the null cursor). *)
C4_FirstSyncNoBacklog ==
    /\ Delivered \cap hist.atLogin = {}
    /\ (cur.addr \in DOMAIN accounts /\ hist.pass.doneN /\ cur.last_notif = Null)
          => (accounts[cur.addr].last_notif # Null <=> hist.pass.batchN # {})
    /\ (cur.addr \in DOMAIN accounts /\ hist.pass.doneH /\ cur.last_home = Null)
          => (accounts[cur.addr].last_home # Null <=> hist.pass.batchH # {})

\* C4 witness: the user logged in with an event on record, and the first pass
\* for the notifications cursor they were given - null, the other stream being
\* empty then - has run to its end
C4_Witness ==
    /\ hist.atLogin # {}
    /\ pc = "acc_done"
    /\ cur.addr \in DOMAIN accounts
    /\ hist.pass.doneN /\ hist.pass.doneH
    /\ cur.last_notif = Null \/ cur.last_home = Null

(* C4 as the specification states it: the first pass from a null cursor always
   leaves a non-null cursor. *)
C4_AlwaysEstablishesCursor ==
    /\ Delivered \cap hist.atLogin = {}
    /\ (cur.addr \in DOMAIN accounts /\ hist.pass.doneN /\ cur.last_notif = Null)
          => accounts[cur.addr].last_notif # Null
    /\ (cur.addr \in DOMAIN accounts /\ hist.pass.doneH /\ cur.last_home = Null)
          => accounts[cur.addr].last_home # Null

(* C5: an exception raised while account A is synchronized is reported to A's
   user once its handler is through, and the cycle does not end before every
   account of the snapshot had its pass. *)
C5_ExceptionIsolated ==
    /\ (pc = "Drain" /\ hist.pass.raised = "exception")
          => [addr |-> cur.addr, kind |-> "error"] \in reports
    /\ (pc \in {"Sleeping", "Listing"} /\ hist.cyc.excAny)
          => \A a \in snapshot : visited[a] >= 1

(* C6: once the Unauthorized handler for account B is through, B's row and
   its contact chats are gone, the logged-out message is sent, and the
   exception has not left the per-account boundary. *)
C6_UnauthorizedLogsOut ==
    (hist.pass.raised = "unauthorized" /\ pc \in {"Drain", "raised"})
       => /\ cur.addr \notin DOMAIN accounts
          /\ DeleteDmChats(dmchats, cur.addr) = dmchats
          /\ [addr |-> cur.addr, kind |-> "loggedout"] \in reports
          /\ pc # "raised"

(* C7: the scheduler begins a new Listing again and again, and whenever an
   exception has left _check_mastodon a new Listing follows. *)
C7_SchedulerNeverStops ==
    /\ []<>(pc = "Listing")
    /\ (pc = "raised") ~> (pc = "Listing")

\* C7 witness: an exception left the cycle and the scheduler is at Listing again
C7_Witness == pc = "Listing" /\ hist.cyc.escaped

(* C8: no account is visited twice in a cycle, only accounts of the snapshot
   are visited, and when Draining is over every group is empty and every
   account of the snapshot had its pass. *)
C8_EachAccountOnce ==
    /\ \A a \in Addr : visited[a] <= 1
    /\ \A a \in Addr : visited[a] = 1 => a \in snapshot
    /\ pc \in {"Sleeping", "raised", "Listing"}
          => \A a \in snapshot : visited[a] = 1
    /\ pc \in {"Sleeping", "raised"} => instances = <<>>

(* C9: no pass makes a remote call for an account whose row was removed after
   the snapshot was taken and before its turn came, and no report is sent to
   its former user. *)
C9_RemovedNotPolled ==
    /\ ~hist.pass.stale
    /\ hist.pass.gone => reports = {}

(* C10: however the scheduler's direct-message handling and the dm command
   interleave, an (account, contact handle) pair has at most one contact
   chat. *)
C10_OneConversationPerContact ==
    \A r1, r2 \in dmchats :
       (r1.acc_addr = r2.acc_addr /\ r1.contact = r2.contact)
          => r1.chat_id = r2.chat_id

\* every event the remote side holds
AllEvents == UNION {Range(remoteNotif[a]) \cup Range(remoteHome[a]) : a \in Addr}

\* the event with a given id
Ev(id) == CHOOSE e \in AllEvents : e.id = id

\* the handles that occur
Handles == {e.acct : e \in AllEvents} \cup Contacts

(* C11: when the scheduler alone resolves contacts, one after the other, an
   (account, handle) pair never has more than one contact chat, and every
   direct message was delivered to the conversation its pair's row records:
   a later resolution returns the conversation the first one created. *)
C11_SequentialResolveOnce ==
    /\ \A a \in Addr : \A h \in Handles :
          Cardinality({r \in dmchats : r.acc_addr = a /\ r.contact = h}) <= 1
    /\ \A i \in DOMAIN sent :
          (sent[i].kind = "dm" /\ sent[i].addr \in DOMAIN accounts)
             => \A id \in sent[i].ids :
                   sent[i].chat = GetChatId(dmchats, sent[i].addr, Ev(id).acct)

\* C11 witness: two direct messages of one contact were delivered in two
\* different passes, to the same conversation, with one row in the store
C11_Witness ==
    /\ Cardinality(dmchats) = 1
    /\ \E i, j \in DOMAIN sent :
          /\ i < j
          /\ sent[i].kind = "dm" /\ sent[j].kind = "dm"
          /\ sent[i].c # sent[j].c
          /\ sent[i].chat = sent[j].chat

(* C12: for one account, handles that are equal ignoring letter case have one
   contact chat between them, and the direct messages of such handles are
   delivered to one and the same conversation. *)
C12_CaseInsensitiveHandles ==
    /\ \A r1, r2 \in dmchats :
          (r1.acc_addr = r2.acc_addr /\ Lower(r1.contact) = Lower(r2.contact))
             => r1 = r2
    /\ \A i, j \in DOMAIN sent :
          (/\ sent[i].kind = "dm" /\ sent[j].kind = "dm"
           /\ sent[i].addr = sent[j].addr
           /\ \A x \in sent[i].ids : \A y \in sent[j].ids :
                 Lower(Ev(x).acct) = Lower(Ev(y).acct))
             => sent[i].chat = sent[j].chat

(* C13: in every reachable state every contact chat row references an
   account that exists. *)
C13_NoOrphanContactChat == \A r \in dmchats : r.acc_addr \in DOMAIN accounts

\* the positions of a pass at which toots is the notifications batch, and
\* those at which it is the timeline batch
NotifStage == {"notif_commit", "dm_lookup", "dm_create", "dm_send",
               "notif_group", "notif_send"}

HomeStagePcs == {"home_commit", "home_send"}

\* the ids the classifier puts in each category, for the batch in toots
CatDms == Ids(Dms(toots))

CatMentions == Ids(MentionsOf(Notifications(toots, cur.muted_notif)))

CatAggregable == Ids(AggregableOf(Notifications(toots, cur.muted_notif)))

(* C14: every fetched notification is placed in at most one category (direct
   messages, mentions, aggregable notifications); it is left out of all of
   them exactly when it is a direct message matching the spam list or, with
   muted_notif, a boost, favourite or follow; a kind the code does not name
   is placed with the mentions. A fetched timeline post is a home post
   exactly when it does not mention the account itself. *)
C14_ClassifierPartition ==
    /\ pc \in NotifStage =>
          /\ CatDms \cap CatMentions = {}
          /\ CatDms \cap CatAggregable = {}
          /\ CatMentions \cap CatAggregable = {}
          /\ \A e \in Range(toots) :
                /\ e.id \notin (CatDms \cup CatMentions \cup CatAggregable)
                      <=> \/ IsDm(e) /\ e.spam
                          \/ cur.muted_notif /\ e.type \in MUTED_NOTIFICATIONS
                /\ e.type \notin Recognized => e.id \in CatMentions
    /\ pc \in HomeStagePcs =>
          \A e \in Range(toots) : e.id \in Ids(HomeToots(toots)) <=> ~e.selfm

\* C14 witness: a batch with a spam direct message, left out, and a
\* notification of an unnamed kind, placed with the mentions
C14_Witness ==
    /\ pc \in NotifStage
    /\ \E e \in Range(toots) : IsDm(e) /\ e.spam /\ e.id \notin CatMentions
    /\ \E e \in Range(toots) : e.type \notin Recognized /\ e.id \in CatMentions

(* C14 as the specification states it: every notification of a recognized
   kind is in exactly one category, and only unrecognized kinds are left
   out. *)
C14_TotalPartition ==
    pc \in NotifStage =>
       \A e \in Range(toots) :
          /\ e.type \in Recognized =>
                Cardinality({c \in {"d", "m", "g"} :
                    \/ c = "d" /\ e.id \in CatDms
                    \/ c = "m" /\ e.id \in CatMentions
                    \/ c = "g" /\ e.id \in CatAggregable}) = 1
          /\ e.id \notin (CatDms \cup CatMentions \cup CatAggregable)
                => e.type \notin Recognized

(* C15: a notification of a kind that is none of mention, boost, favourite,
   follow produces no message, and no pass raises or reports an error
   because of it. *)
C15_UnknownKindDropped ==
    /\ \A i \in DOMAIN sent :
          sent[i].kind # "home" =>
             \A id \in sent[i].ids : Ev(id).type \in Recognized
    /\ hist.pass.raised = "none"
    /\ \A r \in reports : r.kind # "error"

(* C16: no message delivered to a notifications conversation renders a
   direct mention with exactly one recipient, and a direct mention with two
   or more recipients is classified as a mention, not as a direct message. *)
C16_DirectNeverAMention ==
    /\ \A i \in DOMAIN sent :
          sent[i].chat = NotifChat(sent[i].addr) =>
             \A id \in sent[i].ids : ~IsDm(Ev(id))
    /\ pc \in NotifStage =>
          \A e \in Range(toots) :
             (e.type = "mention" /\ e.visibility = "direct" /\ e.mentions >= 2)
                => e.id \in CatMentions /\ e.id \notin CatDms

\* C16 witness: a direct message went to a contact chat and a direct mention
\* with two recipients went to the notifications conversation as a mention
C16_Witness ==
    /\ \E i \in DOMAIN sent :
          /\ sent[i].kind = "dm"
          /\ sent[i].chat # NotifChat(sent[i].addr)
    /\ \E i \in DOMAIN sent :
          /\ sent[i].kind = "mention"
          /\ sent[i].chat = NotifChat(sent[i].addr)
          /\ \E id \in sent[i].ids :
                Ev(id).visibility = "direct" /\ Ev(id).mentions = 2

\* the messages of the pass in progress for the notifications conversation:
\* those delivered already and those still to send
PassNotifMsgs ==
    SelectSeq(sent, LAMBDA m : /\ m.addr = cur.addr
                               /\ m.chat = cur.notifications
                               /\ m.c = cur.last_notif)
    \o outbox

\* the messages of the pass that render one of the given events
MsgsFor(kind, ids) ==
    {i \in DOMAIN PassNotifMsgs :
        PassNotifMsgs[i].kind = kind /\ PassNotifMsgs[i].ids \cap ids # {}}

(* C17: while the notifications of a batch are being sent, there is exactly
   one message per (kind, target post) among its boosts and favourites, and
   it renders every event of that group; and exactly one message for all its
   follows together. *)
C17_OneMessagePerGroup ==
    pc = "notif_send" =>
       LET n == Range(Notifications(toots, cur.muted_notif))
       IN  /\ \A e \in n :
                  e.type \in {"reblog", "favourite"} =>
                     LET g == {x.id : x \in {y \in n : y.type = e.type /\ y.status = e.status}}
                     IN  /\ Cardinality(MsgsFor(e.type, g)) = 1
                         /\ \A i \in MsgsFor(e.type, g) : PassNotifMsgs[i].ids = g
           /\ \A e \in n :
                  e.type = "follow" =>
                     LET g == {x.id : x \in {y \in n : y.type = "follow"}}
                     IN  /\ Cardinality(MsgsFor("follow", g)) = 1
                         /\ \A i \in MsgsFor("follow", g) : PassNotifMsgs[i].ids = g

\* C17 witness: two favourites of one post by two actors are being sent as
\* one message
C17_Witness ==
    /\ pc = "notif_send"
    /\ \E e1, e2 \in Range(toots) :
          /\ e1.id # e2.id
          /\ e1.type = "favourite" /\ e2.type = "favourite"
          /\ e1.acct # e2.acct
          /\ e1.status = e2.status
          /\ \E i \in DOMAIN outbox : outbox[i].ids = {e1.id, e2.id}

(* C18: of two messages one pass delivered for home posts, for direct
   messages or for mentions, the one delivered first renders the smaller
   event id. *)
C18_OldestFirst ==
    \A i, j \in DOMAIN sent :
       (/\ i < j
        /\ sent[i].addr = sent[j].addr
        /\ sent[i].kind = sent[j].kind
        /\ sent[i].kind \in {"home", "dm", "mention"}
        /\ sent[i].c = sent[j].c)
          => \A x \in sent[i].ids : \A y \in sent[j].ids : x < y

\* C18 witness: the remote returned two posts newest first and the pass
\* delivered both to the home conversation
C18_Witness ==
    /\ pc = "acc_done"
    /\ Len(toots) = 2
    /\ toots[1].id > toots[2].id
    /\ \E i, j \in DOMAIN sent :
          /\ i < j
          /\ sent[i].kind = "home" /\ sent[j].kind = "home"
          /\ sent[i].ids = {toots[2].id}
          /\ sent[j].ids = {toots[1].id}

\* the home-conversation messages that render event id
HomeMsgsOf(id) == {i \in DOMAIN sent : sent[i].kind = "home" /\ id \in sent[i].ids}

(* C19: no home-conversation message renders a timeline post that mentions
   the account itself, no timeline post is rendered by two messages, and
   when a pass has come through the home stage without raising, every other
   post of the fetched page has exactly one message, in the account's home
   conversation. *)
C19_HomeFilter ==
    /\ \A i \in DOMAIN sent :
          sent[i].kind = "home" => \A id \in sent[i].ids : ~Ev(id).selfm
    /\ \A e \in AllEvents : Cardinality(HomeMsgsOf(e.id)) <= 1
    /\ (pc = "acc_done" /\ hist.pass.doneH /\ hist.pass.batchH # {})
          => \A id \in hist.pass.batchH :
                ~Ev(id).selfm =>
                   \E i \in HomeMsgsOf(id) :
                      /\ sent[i].addr = cur.addr
                      /\ sent[i].chat = cur.home
                      /\ sent[i].ids = {id}

\* C19 witness: a page held a post mentioning the account and a plain post;
\* the pass is through and delivered the plain post only
C19_Witness ==
    /\ pc = "acc_done"
    /\ hist.pass.doneH
    /\ \E x, y \in hist.pass.batchH :
          /\ Ev(x).selfm
          /\ ~Ev(y).selfm
          /\ HomeMsgsOf(x) = {}
          /\ HomeMsgsOf(y) # {}

\* the pass is past its notification stage, which did not raise
NotifStageThrough ==
    /\ pc \in {"home_fetch", "home_commit", "home_send", "acc_done"}
    /\ hist.pass.doneN

\* the messages of a kind that render event id
MsgsOfKind(kind, id) ==
    {i \in DOMAIN sent : sent[i].kind = kind /\ sent[i].ids = {id}}

(* C20: an account with muted_notif set never gets a boost, favourite or
   follow message; whatever the flag, a pass that came through its
   notification stage delivered exactly one message for every direct message
   of the batch that matches no spam keyword and for every other mention of
   the batch, and the stored last_notif is the largest id of the batch. *)
C20_MutedKeepsDmsAndMentions ==
    /\ \A i \in DOMAIN sent :
          (/\ sent[i].addr \in DOMAIN accounts
           /\ accounts[sent[i].addr].muted_notif)
             => sent[i].kind \notin {"reblog", "favourite", "follow"}
    /\ NotifStageThrough =>
          \A id \in hist.pass.batchN :
             LET e == Ev(id)
             IN  /\ (IsDm(e) /\ NotSpam(e)) =>
                       /\ Cardinality(MsgsOfKind("dm", id)) = 1
                       /\ MsgsOfKind("mention", id) = {}
                 /\ (e.type = "mention" /\ ~IsDm(e)) =>
                       /\ Cardinality(MsgsOfKind("mention", id)) = 1
                       /\ \A i \in MsgsOfKind("mention", id) :
                             sent[i].chat = cur.notifications
                       /\ MsgsOfKind("dm", id) = {}
    /\ (hist.pass.doneN /\ hist.pass.batchN # {} /\ cur.addr \in DOMAIN accounts)
          => accounts[cur.addr].last_notif = SetMax(hist.pass.batchN)

\* C20 witness: a muted account's batch held a favourite and a mention; the
\* pass delivered the mention, no message for the favourite, and stored the
\* larger of the two ids
C20_Witness ==
    /\ NotifStageThrough
    /\ cur.muted_notif
    /\ \E x, y \in hist.pass.batchN :
          /\ Ev(x).type = "favourite"
          /\ Ev(y).type = "mention" /\ ~IsDm(Ev(y))
          /\ x \notin Delivered
          /\ MsgsOfKind("mention", y) # {}
          /\ accounts[cur.addr].last_notif = SetMax({x, y})

\* C20 witness: a muted account's batch held a favourite and a direct
\* message; the direct message reached its contact chat
C20_WitnessDm ==
    /\ NotifStageThrough
    /\ cur.muted_notif
    /\ \E x, y \in hist.pass.batchN :
          /\ Ev(x).type = "favourite"
          /\ IsDm(Ev(y))
          /\ x \notin Delivered
          /\ MsgsOfKind("dm", y) # {}

(* C21: for an account with muted_home set, a pass never enters the home
   stage, no message goes to the home conversation and last_home keeps its
   value, also when the remote timeline holds posts; the notification stage
   of such a pass delivers the direct messages, the mentions and the
   aggregable notifications of its batch and stores the largest id of the
   batch, as it does for an account with the flag clear. *)
C21_MutedHomeSkipsHome ==
    /\ cur # NoTuple /\ cur.muted_home =>
          /\ pc \notin {"home_fetch", "home_commit", "home_send"}
          /\ hist.pass.batchH = {}
          /\ ~hist.pass.doneH
    /\ \A a \in DOMAIN accounts :
          accounts[a].muted_home =>
             /\ accounts[a].last_home = Null
             /\ \A i \in DOMAIN sent :
                   sent[i].addr = a =>
                      sent[i].kind # "home" /\ sent[i].chat # accounts[a].home
    /\ (pc = "acc_done" /\ hist.pass.doneN) =>
          /\ \A id \in hist.pass.batchN :
                LET e == Ev(id)
                    n == {i \in DOMAIN sent : id \in sent[i].ids}
                IN  /\ Cardinality(n) = (IF IsDm(e) /\ ~NotSpam(e) THEN 0
                                         ELSE IF cur.muted_notif /\ e.type \in {"reblog", "favourite", "follow"}
                                         THEN 0 ELSE 1)
                    /\ \A i \in n :
                          sent[i].kind = (IF IsDm(e) THEN "dm"
                                          ELSE IF e.type \in {"reblog", "favourite", "follow"}
                                          THEN e.type ELSE "mention")
          /\ hist.pass.batchN # {} =>
                accounts[cur.addr].last_notif = SetMax(hist.pass.batchN)

\* C21 witness: the pass of a muted_home account is over; a timeline post was
\* waiting on the remote and was not fetched, a mention of the batch reached
\* the notifications conversation
C21_Witness ==
    /\ pc = "acc_done"
    /\ cur.muted_home
    /\ hist.pass.doneN
    /\ remoteHome[cur.addr] # <<>>
    /\ accounts[cur.addr].last_home = Null
    /\ \E id \in hist.pass.batchN :
          \E i \in DOMAIN sent :
             sent[i].ids = {id} /\ sent[i].chat = cur.notifications

\* a remote call of the pass in progress has just failed with a network or
\* server error
NetworkFailed == hist.pass.raised = "network"

(* C22: the step in which a remote call fails with a network or server error
   changes no Account row and no DmChat row and sends nothing to the user;
   no account is visited twice in a cycle; and the account whose pass failed,
   as long as its row stays in the store, gets a new pass from a later
   Listing. *)
C22_NetworkFailureRetriedNextCycle ==
    /\ [][(~NetworkFailed /\ NetworkFailed')
             => /\ accounts' = accounts
                /\ dmchats' = dmchats
                /\ reports' = reports
                /\ sent' = sent
                /\ pc' = "Drain"]_vars
    /\ [](\A a \in Addr : visited[a] <= 1)
    /\ \A a \in {"a1", "a2"} :
          (NetworkFailed /\ cur.addr = a)
             ~> \/ a \notin DOMAIN accounts
                \/ (pc = "notif_fetch" /\ cur.addr = a /\ ~NetworkFailed
                    /\ a \in snapshot /\ visited[a] = 1)

\* C22 witness: the pass of an account that has a contact chat failed with a
\* network error; the row and the contact chat are in the store
C22_Witness ==
    /\ NetworkFailed
    /\ pc = "Drain"
    /\ cur.addr \in DOMAIN accounts
    /\ \E r \in dmchats : r.acc_addr = cur.addr

\* the instances that still have pending accounts
PendingKeys == {instances[i].key : i \in DOMAIN instances}

(* C23: in a round no instance has a second account synchronized, every
   instance with pending accounts that had no turn yet in the round is still
   due in it, and a round is left only when every instance due had its turn:
   between two synchronizations for one instance, every other instance with
   pending accounts has one. *)
C23_RoundRobin ==
    /\ \A i, j \in DOMAIN keys : i # j => keys[i] # keys[j]
    /\ Range(keys) \cap hist.cyc.round = {}
    /\ Range(keys) \subseteq PendingKeys
    /\ pc # "Listing" => PendingKeys \ hist.cyc.round \subseteq Range(keys)
    /\ pc \in {"raised", "Sleeping"} => keys = <<>>

\* the rounds of a cycle that no exception leaves: C23 without its last part
C23_RoundsWithoutEscape ==
    /\ \A i, j \in DOMAIN keys : i # j => keys[i] # keys[j]
    /\ Range(keys) \cap hist.cyc.round = {}
    /\ Range(keys) \subseteq PendingKeys
    /\ pc # "Listing" => PendingKeys \ hist.cyc.round \subseteq Range(keys)
    /\ (pc \in {"raised", "Sleeping"} /\ ~hist.cyc.excAny) => keys = <<>>

\* C23 witness: the second round of a cycle begins after both instances had
\* one account synchronized in the first
C23_Witness ==
    /\ pc = "Drain"
    /\ hist.cyc.round = {"u1", "u2"}
    /\ keys = <<>>
    /\ PendingKeys = {"u1"}

(* C24: the sleep after a Draining phase of e whole seconds with the setting
   d is d - e when that is more than 10 seconds and 10 seconds otherwise; it
   is never below 10, and never above d when d is 10 or more. *)
C24_SleepIsDelayMinusElapsed ==
    pc = "Sleeping" =>
       LET s == hist.cyc.sleep
       IN  /\ s.delay = (IF s.d - s.e > 10 THEN s.d - s.e ELSE 10)
           /\ s.delay >= 10
           /\ s.d >= 10 => s.delay <= s.d

\* C24 witness: Draining took longer than the time left, the floor applies
C24_Witness ==
    /\ pc = "Sleeping"
    /\ hist.cyc.sleep.d = 30
    /\ hist.cyc.sleep.e = 25
    /\ hist.cyc.sleep.delay = 10

\* C24 witness: Draining took a few seconds, they are taken off the delay
C24_WitnessReduced ==
    /\ pc = "Sleeping"
    /\ hist.cyc.sleep.d = 30
    /\ hist.cyc.sleep.e = 3
    /\ hist.cyc.sleep.delay = 27

(* C25: the accounts table never holds two rows with the same local address,
   remote account name and instance. *)
C25_OneAccountPerIdentity ==
    \A r1, r2 \in db_accounts :
       (/\ r1.addr = r2.addr
        /\ r1.accname = r2.accname
        /\ r1.api_url = r2.api_url) => r1 = r2

\* C25 witness: a login to a remote account that has a row was just refused,
\* after an earlier logout and a second login
C25_Witness ==
    /\ replies = "in_use"
    /\ Cardinality(db_accounts) = 1
    /\ Logins = 2

\* the rows of a local address for a remote account on an instance
RowsOf(rows, addr, user, url) ==
    {r \in rows : r.addr = addr /\ r.accname = Lower(user) /\ r.api_url = url}

(* C26: when a local address that has a row for a remote account logs in to
   that account again (no limit standing in the way), the command succeeds
   and the row has the password just given, and nothing else changes: the
   same number of rows, the same id, conversations and cursors. *)
C26_ReloginRefreshesCredential ==
    [][\A addr \in CmdAddr, url \in Urls, user \in Users, passwd \in Passwords :
          (/\ RowsOf(db_accounts, addr, user, url) # {}
           /\ LimitReached(db_accounts, url) = "none"
           /\ MLogin(addr, url, user, passwd, TRUE))
             => /\ replies' = "logged_in"
                /\ Cardinality(db_accounts') = Cardinality(db_accounts)
                /\ \A r \in RowsOf(db_accounts, addr, user, url) :
                      [r EXCEPT !.password = passwd] \in db_accounts'
                /\ nextChat' = nextChat]_vars

\* C26 witness: the second login of an address to its remote account was
\* answered "Account already in use"; the row is there
C26_Witness ==
    /\ replies = "in_use"
    /\ \E r \in db_accounts : r.addr = "a1" /\ r.accname = "alice" /\ r.api_url = "u1"
    /\ Cardinality(db_accounts) = 1

(* C27: a login by a local address that has a row on another instance is
   refused: it creates no row and no conversation and leaves the rows as they
   are. *)
C27_SecondInstanceRejected ==
    [][\A addr \in CmdAddr, url \in Urls, user \in Users, passwd \in Passwords,
          app_ok \in BOOLEAN :
          (/\ \E r \in db_accounts : r.addr = addr /\ r.api_url # url
           /\ MLogin(addr, url, user, passwd, app_ok))
             => /\ replies' # "logged_in"
                /\ db_accounts' = db_accounts
                /\ nextChat' = nextChat]_vars

\* C27 witness: one local address has rows on both instances
C27_Witness ==
    \E r1, r2 \in db_accounts :
       r1.addr = r2.addr /\ r1.api_url = "u1" /\ r2.api_url = "u2"

(* C28: with max_users = M >= 0 the table never holds more than M rows, with
   max_users_instance = K >= 0 never more than K rows of one instance; a row
   is only inserted while both counts are below their limits, and a login
   answered "No more accounts allowed" changes no table and creates no
   conversation. *)
C28_LimitsEnforcedAtLogin ==
    /\ [](config.max_users >= 0 => Cardinality(db_accounts) <= config.max_users)
    /\ [](config.max_users_instance >= 0 =>
             \A url \in Urls :
                Cardinality(GetAccounts(db_accounts, url)) <= config.max_users_instance)
    /\ [][\A r \in db_accounts' \ db_accounts :
             /\ config.max_users >= 0 =>
                   Cardinality(db_accounts) < config.max_users
             /\ config.max_users_instance >= 0 =>
                   Cardinality(GetAccounts(db_accounts, r.api_url)) < config.max_users_instance]_vars
    /\ [][(replies' \in {"no_more", "no_more_instance"})
             => /\ db_accounts' = db_accounts
                /\ db_clients' = db_clients
                /\ app_calls' = app_calls
                /\ nextChat' = nextChat]_vars
    /\ [][config' = config]_vars

\* C28 witness: with two accounts allowed in all and one per instance, both
\* instances have their account and a further login was just refused
C28_Witness ==
    /\ config = [max_users |-> 2, max_users_instance |-> 1]
    /\ \A url \in Urls : Cardinality(GetAccounts(db_accounts, url)) = 1
    /\ replies = "no_more"

\* C28 witness: the limit of one instance refused a login while the total
\* still had room
C28_WitnessInstance ==
    /\ config = [max_users |-> 2, max_users_instance |-> 1]
    /\ Cardinality(db_accounts) = 1
    /\ replies = "no_more_instance"

(* C29: the app registration of an instance is called at most once, also
   when the call failed, and the clients table holds at most one row per
   instance URL. *)
C29_RegisteredOncePerUrl ==
    /\ \A url \in Urls : app_calls[url] <= 1
    /\ \A url \in Urls : Cardinality(GetClient(db_clients, url)) <= 1

\* the part of C29 that the clients table of db.py does keep: api_url is the
\* primary key and no statement updates or deletes a row
C29_ClientRowsKept ==
    /\ [](\A url \in Urls : Cardinality(GetClient(db_clients, url)) <= 1)
    /\ [][db_clients \subseteq db_clients']_vars

(* C30: at most one thread is inside a session at any time, and it is the
   holder of the lock; the rows other threads read change only at a commit,
   then to all of the session's changes at once; a session that raised
   leaves the rows as they were when it began; every exit, normal or by an
   exception, leaves the lock free; and every thread waiting for the lock
   gets its session. *)
C30_SessionsExclusiveAtomic ==
    /\ [](Cardinality(Open) <= 1)
    /\ [](\A t \in Threads : t \in Open <=> lock = t)
    /\ [][committed' # committed =>
             \E t \in Threads :
                /\ session[t].pc = "commit"
                /\ session'[t].pc = "finally"
                /\ committed' = session[t].work]_vars
    /\ [][\A t \in Threads :
             (session[t].pc = "release" /\ session'[t].pc = "out") =>
                /\ lock' = "free"
                /\ session[t].raised => committed' = session[t].entry
                /\ ~session[t].raised => committed' = session[t].work]_vars
    /\ \A t \in Threads : (session[t].pc = "wait") ~> (session[t].pc = "body")
    /\ \A t \in Threads : (lock = t) ~> (lock = "free")

\* C30 witness: a session that added two rows raised and is about to exit
\* while another thread waits for the lock
C30_Witness ==
    \E t \in Threads, u \in Threads :
       /\ session[t].pc = "release"
       /\ session[t].raised
       /\ session[u].pc = "wait"
       /\ committed = {}

\* C30 witness: a session deleted two rows and committed while the two other
\* threads wait
C30_WitnessCommit ==
    \E t \in Threads :
       /\ session[t].pc = "finally"
       /\ ~session[t].raised
       /\ session[t].entry = Rows
       /\ committed = {}
       /\ \A u \in Threads \ {t} : session[u].pc = "wait"

\* C30 witness: the body made two changes and then raised
C30_WitnessRaise ==
    \E t \in Threads :
       /\ session[t].pc = "except"
       /\ session[t].work = Rows
       /\ session[t].entry = {}

(* C31: a command of the tests sent without arguments by an address that has
   no account is answered with exactly one reply, marked as an error, makes
   no remote call and leaves the accounts and the contact chats as they
   were. *)
C31_NoAccountNoArgsOneError ==
    /\ []((cmdlog.cmd \in Commands /\ cmdlog.payload = "" /\ ~cmdlog.linked) =>
             /\ Len(cmdlog.out) = 1
             /\ cmdlog.out[1].error
             /\ cmdlog.calls = 0)
    /\ [][(cmdlog'.cmd \in Commands /\ cmdlog'.payload = "" /\ ~cmdlog'.linked) =>
             /\ accounts' = accounts
             /\ dmchats' = dmchats]_vars

\* C31 witness: a3, which has no account, sent a bare follow in a group and got
\* the usage error, while the accounts of a1 and a2 exist
C31_Witness ==
    /\ cmdlog = [cmd |-> "follow", payload |-> "", addr |-> "a3", linked |-> FALSE,
                 out |-> <<ErrorReply("Wrong usage")>>, calls |-> 0]
    /\ DOMAIN accounts = {"a1", "a2"}

\* C31 witness: a3 sent a bare logout and was told that it is not logged in
C31_WitnessLogout ==
    /\ cmdlog.cmd = "logout" /\ cmdlog.addr = "a3" /\ cmdlog.payload = ""
    /\ cmdlog.out = <<ErrorReply("You are not logged in")>>
    /\ DOMAIN accounts = {"a1", "a2"}

\* DBManager.get_accounts(addr=...)
GetAccountsOf(rows, addr) == {r \in rows : r.addr = addr}

\* the logout commands address addr can send
LogoutBy(addr) == \E payload \in 0..MaxLogins : MLogout(addr, payload)

(* C32: a logout from an address that has no account changes no table and is
   answered with a report, and once an address has logged out a further
   logout of that address changes nothing: two logouts leave what one
   leaves. *)
C32_LogoutIdempotent ==
    /\ [][\A addr \in CmdAddr, payload \in 0..MaxLogins :
             MLogout(addr, payload) =>
                db_accounts' = LogoutRows(db_accounts, addr, payload)]_vars
    /\ [][\A addr \in CmdAddr :
             (LogoutBy(addr) /\ GetAccountsOf(db_accounts, addr) = {}) =>
                /\ db_accounts' = db_accounts
                /\ db_clients' = db_clients
                /\ replies' \in {"unknown", "not_yours"}]_vars
    /\ [][\A addr \in CmdAddr :
             (LogoutBy(addr) /\ db_accounts' # db_accounts) =>
                \A payload \in 0..MaxLogins :
                   LogoutRows(db_accounts', addr, payload) = db_accounts']_vars

\* the part of C32 that m_logout keeps: a logout from an address without
\* account changes nothing and is answered, and the logout of an address that
\* had one account is idempotent
C32_LogoutOfSingleAccount ==
    /\ [][\A addr \in CmdAddr :
             (LogoutBy(addr) /\ GetAccountsOf(db_accounts, addr) = {}) =>
                /\ db_accounts' = db_accounts
                /\ db_clients' = db_clients
                /\ replies' \in {"unknown", "not_yours"}]_vars
    /\ [][\A addr \in CmdAddr :
             (/\ LogoutBy(addr)
              /\ db_accounts' # db_accounts
              /\ Cardinality(GetAccountsOf(db_accounts, addr)) = 1) =>
                \A payload \in 0..MaxLogins :
                   LogoutRows(db_accounts', addr, payload) = db_accounts']_vars

\* the account of the tuple in hand was created after the snapshot: its
\* token is not the one the scheduler listed
StaleTuple == cur.addr \in DOMAIN accounts /\ accounts[cur.addr].token # cur.token

(* C33: when the account of a snapshot tuple was logged in again after the
   Listing, neither the handler of an Unauthorized answer nor a cursor update
   of the pass touches the new row. *)
C33_StaleWritesMissNewRecord ==
    [][(StaleTuple /\ (HandleUnauthorized \/ NotifCommit \/ HomeCommit)) =>
          /\ cur.addr \in DOMAIN accounts'
          /\ accounts'[cur.addr] = accounts[cur.addr]]_vars

(* C34: a Listing phase is entered only from a Sleeping phase whose sleep is
   at least the minimum: the scheduler never returns to Listing from any
   other phase. *)
C34_SleepBetweenListings ==
    [][(pc' = "Listing" /\ pc # "Listing") =>
          /\ pc = "Sleeping"
          /\ hist.cyc.sleep.delay >= MinDelay]_vars

\* the part of C34 that _check_mastodon keeps: a cycle that no exception
\* leaves sleeps at least the minimum before the next Listing
C34_SleepUnlessEscaped ==
    [][(pc' = "Listing" /\ pc \notin {"Listing", "raised"}) =>
          /\ pc = "Sleeping"
          /\ hist.cyc.sleep.delay >= MinDelay]_vars

\* the events of a notifications batch that the pass has to deliver
Deliverable(e) ==
    \/ IsDm(e) /\ NotSpam(e)
    \/ ~IsDm(e) /\ (~cur.muted_notif \/ e.type \notin MUTED_NOTIFICATIONS)

(* C35: while a pass is at its home stage (fetching, storing the cursor or
   sending), its notification stage is over: the batch was fetched and the
   notifications cursor stored, no direct message and no notification is
   left to send, every event of the notifications batch that is to be
   delivered has its message, and these messages precede every message of
   the home batch. *)
C35_NotificationsBeforeHome ==
    pc \in {"home_fetch", "home_commit", "home_send"} =>
       /\ hist.pass.doneN
       /\ dmq = <<>>
       /\ pc = "home_fetch" => outbox = <<>>
       /\ \A i \in DOMAIN outbox : outbox[i].kind = "home"
       /\ hist.pass.batchN # {} =>
             accounts[cur.addr].last_notif = SetMax(hist.pass.batchN)
       /\ \A id \in hist.pass.batchN : Deliverable(Ev(id)) => id \in Delivered
       /\ \A i, j \in DOMAIN sent :
             (/\ sent[i].ids \cap hist.pass.batchN # {}
              /\ sent[j].ids \cap hist.pass.batchH # {}) => i < j

\* C35 witness: the pass delivered a notification of its batch and is now
\* sending a home post
C35_Witness ==
    /\ pc = "home_send"
    /\ outbox # <<>>
    /\ hist.pass.batchN # {}
    /\ hist.pass.batchN \subseteq Delivered

\* the ids of a stream above a cursor
NewerIds(stream, c) == {e.id : e \in {x \in Range(stream) : x.id > c}}

(* C36: with a stored cursor, a pass fetches at most one page, sets the
   cursor to the newest id of that page, and no event between the cursor the
   run began with and the stored cursor was left out; every event above the
   cursor is fetched by some pass. *)
C36_PagesSkipNothing ==
    /\ [](Len(toots) <= paging.n)
    /\ [](/\ NewerIds(remoteNotif["a1"], paging.c0.notif)
                \ NewerIds(remoteNotif["a1"], accounts["a1"].last_notif)
             \subseteq paging.fetched
          /\ NewerIds(remoteHome["a1"], paging.c0.home)
                \ NewerIds(remoteHome["a1"], accounts["a1"].last_home)
             \subseteq paging.fetched)
    /\ [][(PassNotif("a1") /\ toots' # <<>>) =>
             /\ accounts'["a1"].last_notif = SetMax(Ids(toots'))
             /\ paging'.fetched = paging.fetched \cup Ids(toots')]_vars
    /\ [][(PassHome("a1") /\ toots' # <<>>) =>
             /\ accounts'["a1"].last_home = SetMax(Ids(toots'))
             /\ paging'.fetched = paging.fetched \cup Ids(toots')]_vars
    /\ \A id \in 1..MaxPageEv :
          (id \in NewerIds(remoteNotif["a1"], paging.c0.notif)
                     \cup NewerIds(remoteHome["a1"], paging.c0.home))
             ~> (id \in paging.fetched)

\* C36 witness: three notifications were waiting above the cursor, the pass
\* fetched a page of two and stored the newer of them; the third is pending
C36_Witness ==
    /\ paging.n = 2
    /\ Len(toots) = 2
    /\ accounts["a1"].last_notif = toots[1].id
    /\ Cardinality(NewerIds(remoteNotif["a1"], paging.c0.notif)) = 3
    /\ Cardinality(NewerIds(remoteNotif["a1"], accounts["a1"].last_notif)) = 1

\* C36 witness: page by page, three passes fetched three notifications
C36_WitnessAll ==
    /\ paging.n = 1
    /\ Cardinality(NewerIds(remoteNotif["a1"], paging.c0.notif)) = 3
    /\ NewerIds(remoteNotif["a1"], paging.c0.notif) \subseteq paging.fetched

\* the posts of the home timeline of the tuple in hand above the stored
\* cursor (all of them while the cursor is null)
PendingHome ==
    IF cur.addr \in DOMAIN accounts
    THEN {e.id : e \in {x \in Range(remoteHome[cur.addr]) :
                          \/ accounts[cur.addr].last_home = Null
                          \/ x.id > accounts[cur.addr].last_home}}
    ELSE {}

(* C37: the home timeline is fetched only in a pass whose notification
   processing did not raise; last_home changes only at the cursor update of
   such a pass; so a home fetch gets every post above the stored cursor,
   those left by passes that raised included, and a pass that comes to its
   end without raising has delivered each of them that does not mention the
   account. *)
C37_NotifFailureKeepsHomePending ==
    /\ [][HomeFetch => (hist.pass.raised = "none" /\ hist.pass.doneN)]_vars
    /\ [][\A a \in DOMAIN accounts \cap DOMAIN accounts' :
             accounts'[a].last_home # accounts[a].last_home =>
                /\ HomeCommit
                /\ cur.addr = a
                /\ hist.pass.raised = "none"]_vars
    /\ [][HomeFetch => Ids(toots') = PendingHome]_vars
    /\ []((pc = "acc_done" /\ hist.pass.raised = "none" /\ hist.pass.doneH) =>
             \A id \in hist.pass.batchH : Ev(id).selfm \/ id \in Delivered)

\* C37 witness: the notification stage of the pass raised while a home post
\* was waiting; the pass is over, the post still above the cursor
C37_Witness ==
    /\ pc = "Drain"
    /\ hist.pass.raised = "exception"
    /\ hist.pass.batchN # {}
    /\ hist.pass.batchH = {}
    /\ PendingHome # {}

\* C37 witness: a pass that did not raise fetched and delivered a home post
C37_WitnessLater ==
    /\ pc = "acc_done"
    /\ hist.pass.raised = "none"
    /\ hist.pass.batchH # {}
    /\ hist.pass.batchH \subseteq Delivered

\* a single-recipient direct message that matches a keyword of SPAM
IsSpamDm(e) == IsDm(e) /\ ~NotSpam(e)

(* C38: a direct message that matches a spam keyword is never queued and
   never delivered, no contact chat is created for it, and once the pass
   that fetched it has stored its cursor the cursor is at or above its id,
   never falls back, and every later fetch returns only ids above the stored
   cursor. *)
C38_SpamDmDropped ==
    /\ [](\A i \in DOMAIN sent : \A id \in sent[i].ids : ~IsSpamDm(Ev(id)))
    /\ [](\A i \in DOMAIN dmq : ~IsSpamDm(dmq[i]))
    /\ [](\A i \in DOMAIN outbox : \A id \in outbox[i].ids : ~IsSpamDm(Ev(id)))
    /\ [][\A r \in dmchats' \ dmchats :
             /\ pc = "dm_create"
             /\ ~IsSpamDm(Head(dmq))
             /\ r.contact = Head(dmq).acct]_vars
    /\ []((hist.pass.doneN /\ cur.addr \in DOMAIN accounts) =>
             \A id \in hist.pass.batchN : id <= accounts[cur.addr].last_notif)
    /\ [][\A a \in DOMAIN accounts \cap DOMAIN accounts' :
             accounts[a].last_notif # Null =>
                accounts'[a].last_notif >= accounts[a].last_notif]_vars
    /\ [][NotifFetch =>
             \A id \in Ids(toots') :
                \/ accounts[cur.addr].last_notif = Null
                \/ id > accounts[cur.addr].last_notif]_vars

\* C38 witness: the pass fetched a spam direct message alone, stored the
\* cursor and came to its end; nothing was delivered and no chat exists
C38_Witness ==
    /\ pc = "acc_done"
    /\ \E id \in hist.pass.batchN : IsSpamDm(Ev(id))
    /\ accounts[cur.addr].last_notif = SetMax(hist.pass.batchN)
    /\ Delivered \cap hist.pass.batchN = {}
    /\ dmchats = {}

\* the user a contact conversation was made for
MadeFor(gid) == {m.user : m \in {x \in dmlog.made : x.chat = gid}}

\* C39: once m_dm has made a contact conversation for a remote user, however
\* the user was named, there is no second conversation for that user, a
\* later m_dm or direct message of the user is served in that conversation,
\* and what is written in it is sent to the user's handle
C39_DmResolvesToOneConversation ==
    /\ \A m1, m2 \in dmlog.made : m1.user = m2.user => m1.chat = m2.chat
    /\ dmlog.last.kind \in {"dm", "inbound"} =>
          \A m \in dmlog.made : m.user = dmlog.last.user => m.chat = dmlog.last.chat
    /\ dmlog.last.kind = "relay" =>
          \A user \in MadeFor(dmlog.last.chat) : dmlog.last.to = Lower(user)

\* C39, the conversations whose stored contact is the user's acct: there is
\* one for a user, and what is written in it is sent to the user's handle
C39_OneConversationPerStoredAcct ==
    /\ \A r1, r2 \in db_pchats :
          (/\ r1.account = r2.account
           /\ \E user \in MadeFor(r1.id) \cap MadeFor(r2.id) :
                 r1.contact = Lower(user) /\ r2.contact = Lower(user))
          => r1 = r2
    /\ \A r \in db_pchats : MadeFor(r.id) # {}

\* the migrations v+1 .. DATABASE_VERSION in ascending order
RECURSIVE Ascending(_)
Ascending(v) == IF v >= DATABASE_VERSION THEN <<>> ELSE <<v + 1>> \o Ascending(v + 1)

\* C40: a run of run_migrations on a file at stored version v applies the
\* migrations v+1 .. DATABASE_VERSION once each, in ascending order; the
\* stored version becomes i in the step that commits migration i; a
\* migration that fails leaves the version at i-1 and ends the run; a run
\* after a complete one applies nothing; without a file a run changes nothing
C40_MigrationsOnceInOrder ==
    /\ [](mig.ended = "done" =>
             /\ mig.applied = Ascending(mig.v0)
             /\ dbfile.version = IF mig.v0 > DATABASE_VERSION THEN mig.v0
                                 ELSE DATABASE_VERSION)
    /\ [](\A j, k \in DOMAIN mig.all : j < k => mig.all[j] < mig.all[k])
    /\ [][dbfile'.version # dbfile.version =>
             /\ dbfile'.version = dbfile.version + 1
             /\ dbfile'.account # dbfile.account
             /\ mig'.applied = Append(mig.applied, dbfile'.version)]_vars
    /\ [][mig'.applied # mig.applied /\ mig'.runs = mig.runs =>
             dbfile'.version = dbfile.version + 1]_vars
    /\ [](mig.ended = "raised" =>
             /\ mig.pc = "idle"
             /\ dbfile.version = mig.i - 1
             /\ Len(mig.applied) < Len(Ascending(mig.v0))
             /\ mig.applied = SubSeq(Ascending(mig.v0), 1, Len(mig.applied)))
    /\ [](mig.prev = "done" /\ mig.runs >= 2 => mig.applied = <<>>)
    /\ [][~dbfile.exists /\ mig'.runs # mig.runs =>
             /\ dbfile' = dbfile
             /\ mig'.pc = "idle"
             /\ mig'.applied = <<>>
             /\ mig'.all = mig.all]_vars

\* a run migrated a file from version 0 and the next run found nothing to do
C40_Witness ==
    /\ mig.runs >= 2
    /\ mig.prev = "done"
    /\ mig.ended = "done"
    /\ mig.all = <<1>>
    /\ dbfile.version = DATABASE_VERSION

\* a migration failed and the version is the one before it
C40_WitnessRaise ==
    /\ mig.ended = "raised"
    /\ mig.i = 1
    /\ dbfile.version = 0

\* a run found no file
C40_WitnessSkip ==
    /\ mig.ended = "skipped"
    /\ ~dbfile.exists
====
